---- MODULE Spec2Model ----
(***************************************************************************)
(* State-machine model of the DataGovernance platform's services.          *)
(*                                                                         *)
(* Each service is a single-threaded asyncio process: a handler runs       *)
(* without interruption between two awaits, and every document-store call  *)
(* is an await.  A handler whose outcome depends on a value read before an *)
(* await is therefore modelled as one action per await-delimited segment;  *)
(* the requests in flight are held in request slots.                       *)
(*                                                                         *)
(* The services share no state, so each has its own specification          *)
(* (SpecAnnotation, SpecAuth, ...) over the common variable tuple, in      *)
(* which the other services' variables stay parked at their initial value. *)
(***************************************************************************)
EXTENDS Integers, Sequences, FiniteSets, TLC

(***************************************************************************)
(* Bounds of the model.                                                    *)
(***************************************************************************)
NumTasks == 2
MaxReq == 2
MaxUsers == 2
MaxAuthReq == 1
MaxTokens == 1
MaxTicks == 2
TickMinutes == 45
MaxPolicies == 2
MaxCfgReq == 2
MaxAuditLogs == 2
MaxTags == 2
MaxDetections == 2
MaxMaskDetections == 1
MaxColumns == 2
NumRows == 2
MaxRuns == 2
MaxCorrReq == 2
NumItems == 2
MaxValReq == 2
NumLoadTasks == 4
MaxPerUser == 2
NumRoundRobinTasks == 9
MaxCleanRows == 3
MaxCell == 2
MaxCleanRuns == 2
MaxQualityDatasets == 3
IbanFreeLen == 2
IbanBaseLen == 24
MaxLetters == 3
MaxDigits == 13

None == "None"
Idle == [op |-> "idle"]

VARIABLES
    \* annotation-serv/main.py
    tasks,                \* db["tasks"]: task id -> document (status, assigned_to, priority)
    reqs,                 \* annotation requests suspended at an await
    last_assigned_index,  \* AssignmentManager.last_assigned_index
    \* auth-serv
    users,                \* db["users"], in insertion order
    tokens,               \* the bearer tokens create_token has signed
    now,                  \* the clock, in minutes
    authReqs,             \* /users/create requests suspended at an await
    authResp,             \* the last request auth-serv answered
    \* ethimask-serv/main.py
    db,                   \* whether the document-store handle is present (db is not None)
    masking_policies,     \* db.masking_policies
    ethimask_config,      \* db.ethimask_config's "global_config" document
    perceptron,           \* the in-process MaskingPerceptron's weights and bias
    cfgReqs,              \* POST /config requests suspended at an await
    audit_logs,           \* number of documents of db.audit_logs
    maskResp,             \* the last /mask request and its answer
    \* ranger_integration/access_check.py
    acReq,                \* the (user_role, tags) the simulator is called with
    acResp,               \* the dict it returned
    \* atlas_integration/sync.py, ranger_integration/sync.py
    mock_flag,            \* the MOCK_GOVERNANCE flag of the environment
    http_requests,        \* the outbound HTTP requests of the last sync call
    syncResp,             \* the last sync call and its outcome
    \* correction-serv/main.py
    datasets_store,       \* datasets_store[dataset_id]["df"]: row -> value of the email column
    inconsistencies,      \* db.inconsistencies, the documents of the dataset
    corrReqs,             \* correction requests suspended at an await
    detect_runs,          \* number of detection runs started (source of the uuid4 ids)
    corrResp,             \* the last request correction-serv answered
    \* classification-serv/main.py
    pending_classifications,\* db.pending_classifications
    validated_classifications,\* db.validated_classifications, in insertion order
    added,                \* number of /add-pending calls (source of the uuid4 ids)
    valReqs,              \* /validate requests suspended at an await
    valResponses,         \* item id -> the (action, status code) pairs /validate has answered
    \* airflow/dags/data_processing_pipeline.py
    ti,                   \* task id -> state of its task instance in the run
    try_number,           \* task id -> tries started by its unfinished task instance
    \* taxonomie-serv/main.py
    tax_store,            \* the Moroccan taxonomy document of the taxonomies collection
    engine,               \* starting, up, or crashed at import
    moroccan_patterns,    \* taxonomy_engine.moroccan_patterns
    compiled_patterns,    \* taxonomy_engine.compiled_patterns
    last_reloaded,        \* the table the last successful /patterns/reload obtained
    reloadResp,           \* last response of /patterns/reload
    analyzeResp,          \* last response of /analyze
    \* cleaning-serv/main.py
    datasets_cache,       \* datasets_cache[dataset_id]["df"]: the rows of the one column
    cleanResp,            \* responses of the auto-clean calls, in order
    \* quality-serv/main.py
    PDF_AVAILABLE,        \* whether "from fpdf import FPDF" succeeded at import
    quality_db,           \* whether db is not None
    quality_datasets,     \* keys of datasets_store
    quality_reports,      \* dataset ids with a document in db.quality_reports
    pdfResp,              \* last response of GET /report/{dataset_id}/pdf
    \* tests/generate_valid_iban.py, presidio-serv iban_ma_recognizer.py
    iban_base,            \* the base string given to generate_iban
    iban,                 \* the string generate_iban returned
    iban_verdict,         \* what iban_validator answered for it
    \* ethimask-serv/main.py, MaskingPerceptron on its own
    perc,                 \* weights (hundredths) and bias (hundredths) of the perceptron
    percPrev,             \* the decision before the last, when the last one varies one input of it
    percResp,             \* the last decision: inputs, score (thousandths), level
    \* presidio-serv recognizers, MoroccanPatternRecognizer.analyze
    pres_text,            \* the text given to the recognizer: its candidate token and window
    pres_recognizer,      \* the entity of the recognizer called
    pres_results,         \* what analyze returned, and for which requested entities
    \* classification-serv ensemble_classifier.py, EnsembleClassifier.classify
    ens_text,             \* the text given to classify: what the rule layer finds in it, what the other layers answer
    ens_result            \* what classify returned

annotVars ==
    <<tasks, reqs, last_assigned_index>>
authVars ==
    <<users, tokens, now, authReqs, authResp>>
maskVars ==
    <<db, masking_policies, ethimask_config, perceptron, cfgReqs, audit_logs,
      maskResp>>
accessVars ==
    <<acReq, acResp>>
syncVars ==
    <<mock_flag, http_requests, syncResp>>
corrVars ==
    <<datasets_store, inconsistencies, corrReqs, detect_runs, corrResp>>
clsVars ==
    <<pending_classifications, validated_classifications, added, valReqs,
      valResponses>>
pipeVars ==
    <<ti, try_number>>
taxVars ==
    <<tax_store, engine, moroccan_patterns, compiled_patterns, last_reloaded,
      reloadResp, analyzeResp>>
cleanVars ==
    <<datasets_cache, cleanResp>>
qualityVars ==
    <<PDF_AVAILABLE, quality_db, quality_datasets, quality_reports, pdfResp>>
ibanVars ==
    <<iban_base, iban, iban_verdict>>
percVars ==
    <<perc, percPrev, percResp>>
presVars ==
    <<pres_text, pres_recognizer, pres_results>>
ensVars ==
    <<ens_text, ens_result>>

\* what each service's actions leave alone
notAnnot ==
    <<authVars, maskVars, accessVars, syncVars, corrVars, clsVars, pipeVars,
      taxVars, cleanVars, qualityVars, ibanVars, percVars, presVars, ensVars>>
notAuth ==
    <<annotVars, maskVars, accessVars, syncVars, corrVars, clsVars, pipeVars,
      taxVars, cleanVars, qualityVars, ibanVars, percVars, presVars, ensVars>>
notMask ==
    <<annotVars, authVars, accessVars, syncVars, corrVars, clsVars, pipeVars,
      taxVars, cleanVars, qualityVars, ibanVars, percVars, presVars, ensVars>>
notAccess ==
    <<annotVars, authVars, maskVars, syncVars, corrVars, clsVars, pipeVars,
      taxVars, cleanVars, qualityVars, ibanVars, percVars, presVars, ensVars>>
notSync ==
    <<annotVars, authVars, maskVars, accessVars, corrVars, clsVars, pipeVars,
      taxVars, cleanVars, qualityVars, ibanVars, percVars, presVars, ensVars>>
notCorr ==
    <<annotVars, authVars, maskVars, accessVars, syncVars, clsVars, pipeVars,
      taxVars, cleanVars, qualityVars, ibanVars, percVars, presVars, ensVars>>
notCls ==
    <<annotVars, authVars, maskVars, accessVars, syncVars, corrVars, pipeVars,
      taxVars, cleanVars, qualityVars, ibanVars, percVars, presVars, ensVars>>
notPipe ==
    <<annotVars, authVars, maskVars, accessVars, syncVars, corrVars, clsVars,
      taxVars, cleanVars, qualityVars, ibanVars, percVars, presVars, ensVars>>
notTax ==
    <<annotVars, authVars, maskVars, accessVars, syncVars, corrVars, clsVars,
      pipeVars, cleanVars, qualityVars, ibanVars, percVars, presVars, ensVars>>
notClean ==
    <<annotVars, authVars, maskVars, accessVars, syncVars, corrVars, clsVars,
      pipeVars, taxVars, qualityVars, ibanVars, percVars, presVars, ensVars>>
notQuality ==
    <<annotVars, authVars, maskVars, accessVars, syncVars, corrVars, clsVars,
      pipeVars, taxVars, cleanVars, ibanVars, percVars, presVars, ensVars>>
notIban ==
    <<annotVars, authVars, maskVars, accessVars, syncVars, corrVars, clsVars,
      pipeVars, taxVars, cleanVars, qualityVars, percVars, presVars, ensVars>>
notPerc ==
    <<annotVars, authVars, maskVars, accessVars, syncVars, corrVars, clsVars,
      pipeVars, taxVars, cleanVars, qualityVars, ibanVars, presVars, ensVars>>
notPres ==
    <<annotVars, authVars, maskVars, accessVars, syncVars, corrVars, clsVars,
      pipeVars, taxVars, cleanVars, qualityVars, ibanVars, percVars, ensVars>>
notEns ==
    <<annotVars, authVars, maskVars, accessVars, syncVars, corrVars, clsVars,
      pipeVars, taxVars, cleanVars, qualityVars, ibanVars, percVars, presVars>>
vars ==
    <<tasks, reqs, last_assigned_index,
      users, tokens, now, authReqs, authResp,
      db, masking_policies, ethimask_config, perceptron, cfgReqs, audit_logs, maskResp,
      acReq, acResp,
      mock_flag, http_requests, syncResp,
      datasets_store, inconsistencies, corrReqs, detect_runs, corrResp,
      pending_classifications, validated_classifications, added, valReqs, valResponses,
      ti, try_number,
      tax_store, engine, moroccan_patterns, compiled_patterns, last_reloaded, reloadResp, analyzeResp,
      datasets_cache, cleanResp,
      PDF_AVAILABLE, quality_db, quality_datasets, quality_reports, pdfResp,
      iban_base, iban, iban_verdict,
      perc, percPrev, percResp,
      pres_text, pres_recognizer, pres_results,
      ens_text, ens_result>>

(***************************************************************************)
(* Annotation service (src/services/annotation-serv/main.py)               *)
(***************************************************************************)
TaskIds == 1..NumTasks
ReqIds == 1..MaxReq
AnnotUsers == {"u1", "u2"}

\* TaskStatus enum
TaskStatus == {"pending", "assigned", "in_progress", "completed", "review", "rejected"}

\* TaskPriority values a create request may carry (subset of the enum)
Priorities == {"high", "medium"}

\* the rank table used as sort key by get_pending_tasks
PriorityRank(p) ==
    CASE p = "critical" -> 0
      [] p = "high" -> 1
      [] p = "medium" -> 2
      [] OTHER -> 3

\* user lists a bulk /assign request may carry (config.users, non-empty)
UserLists == {<<"u1">>, <<"u1", "u2">>}

\* A document that was never inserted has status "absent"; a deleted one
\* "deleted" (ids are uuid4 values and never come back).
InDb(tk, t) == tk[t].status \in TaskStatus

\* TaskQueue.get_task: the document find_one returns; callers test
\* "not task" with InDb
get_task(tk, t) == tk[t]

\* TaskQueue.update_task: update_one({"id": task_id}, {"$set": ...}) of the
\* status and assigned_to fields; matches nothing when the document is gone.
update_task(tk, t, st, who) ==
    IF InDb(tk, t)
    THEN [tk EXCEPT ![t] = [@ EXCEPT !.status = st, !.assigned_to = who]]
    ELSE tk

\* update_task with only the status in $set
update_status(tk, t, st) ==
    IF InDb(tk, t) THEN [tk EXCEPT ![t] = [@ EXCEPT !.status = st]] ELSE tk

\* TaskQueue.get_pending_tasks: the pending tasks sorted by (priority rank,
\* created_at); ids are handed out in creation order.
SortKey(tk, t) == PriorityRank(tk[t].priority) * (Cardinality(DOMAIN tk) + 1) + t

get_pending_tasks(tk) ==
    LET P == {t \in DOMAIN tk : tk[t].status = "pending"}
        \* the k-th element of the sorted list: the one with k - 1 smaller keys
        at(k) == CHOOSE t \in P :
                     Cardinality({o \in P : SortKey(tk, o) < SortKey(tk, t)}) = k - 1
    IN [k \in 1..Cardinality(P) |-> at(k)]

AnnotInit ==
    /\ tasks = [t \in TaskIds |-> [status |-> "absent", assigned_to |-> None, priority |-> "medium"]]
    /\ reqs = [r \in ReqIds |-> Idle]
    /\ last_assigned_index = 0

\* create_tasks / TaskQueue.create_task: one insert_one per await
CreateTask(p) ==
    /\ \E t \in DOMAIN tasks :
          /\ tasks[t].status = "absent"
          /\ \A s \in DOMAIN tasks : s < t => tasks[s].status # "absent"
          /\ tasks' = [tasks EXCEPT ![t] = [status |-> "pending", assigned_to |-> None, priority |-> p]]
    /\ UNCHANGED <<reqs, last_assigned_index, notAnnot>>

\* delete_task: delete_one({"id": task_id})
DeleteTask(t) ==
    /\ InDb(tasks, t)
    /\ tasks' = [tasks EXCEPT ![t] = [status |-> "deleted", assigned_to |-> None, priority |-> "medium"]]
    /\ UNCHANGED <<reqs, last_assigned_index, notAnnot>>

\* assign_single_task -> AssignmentManager.assign_task, up to the await of
\* update_task: the task read by get_task must be pending, else 400.
AssignTaskRead(r, t, u) ==
    /\ reqs[r] = Idle
    /\ InDb(tasks, t)
    /\ get_task(tasks, t).status = "pending"
    /\ reqs' = [reqs EXCEPT ![r] = [op |-> "assign_task", task |-> t, user |-> u]]
    /\ UNCHANGED <<tasks, last_assigned_index, notAnnot>>

\* AssignmentManager.assign_task: the update_task call and "return True"
AssignTaskWrite(r) ==
    /\ reqs[r].op = "assign_task"
    /\ tasks' = update_task(tasks, reqs[r].task, "assigned", reqs[r].user)
    /\ reqs' = [reqs EXCEPT ![r] = Idle]
    /\ UNCHANGED <<last_assigned_index, notAnnot>>

\* assign_tasks (strategy round_robin) -> assign_round_robin: the await of
\* get_pending_tasks gives the list the loop then walks.
AssignRoundRobinRead(r, user_list) ==
    /\ reqs[r] = Idle
    /\ reqs' = [reqs EXCEPT ![r] = [op |-> "assign_round_robin", users |-> user_list,
                                    pending |-> get_pending_tasks(tasks), i |-> 0,
                                    assignments |-> <<>>]]
    /\ UNCHANGED <<tasks, last_assigned_index, notAnnot>>

\* the user at the cursor whatever the position of the task in the list
round_robin_user_NoRotation(user_list, cursor, i) == user_list[(cursor % Len(user_list)) + 1]

\* users[(self.last_assigned_index + i) % len(users)], lists counted from 1
round_robin_user(user_list, cursor, i) == user_list[((cursor + i) % Len(user_list)) + 1]

\* one iteration of the loop of assign_round_robin: the user is picked from
\* the live cursor and the task is updated without looking at its status.
AssignRoundRobinStep(r) ==
    /\ reqs[r].op = "assign_round_robin"
    /\ reqs[r].i < Len(reqs[r].pending)
    /\ LET q == reqs[r]
           t == q.pending[q.i + 1]
           user == round_robin_user(q.users, last_assigned_index, q.i)
       IN /\ tasks' = update_task(tasks, t, "assigned", user)
          /\ reqs' = [reqs EXCEPT ![r] = [q EXCEPT !.i = q.i + 1,
                                                   !.assignments = Append(q.assignments, <<t, user>>)]]
    /\ UNCHANGED <<last_assigned_index, notAnnot>>

\* the end of assign_round_robin: the cursor advances by len(pending)
AssignRoundRobinReturn(r) ==
    /\ reqs[r].op = "assign_round_robin"
    /\ reqs[r].i = Len(reqs[r].pending)
    /\ last_assigned_index' = (last_assigned_index + Len(reqs[r].pending)) % Len(reqs[r].users)
    /\ reqs' = [reqs EXCEPT ![r] = Idle]
    /\ UNCHANGED <<tasks, notAnnot>>

\* start_task / submit_annotation / request_review / approve_task /
\* reject_task up to the await of update_task: 404 when get_task finds
\* nothing, 403 when start is asked by another user than task.assigned_to.
\* No handler looks at task.status.
LifecycleOps == {"start", "submit", "review", "approve", "reject"}

LifecycleRead(r, op, t, u) ==
    /\ reqs[r] = Idle
    /\ InDb(tasks, t)
    /\ op = "start" => get_task(tasks, t).assigned_to = u
    /\ reqs' = [reqs EXCEPT ![r] = [op |-> op, task |-> t]]
    /\ UNCHANGED <<tasks, last_assigned_index, notAnnot>>

\* the status each of these handlers writes
TargetStatus(op) ==
    CASE op = "start" -> "in_progress"
      [] op = "submit" -> "completed"
      [] op = "review" -> "review"
      [] op = "approve" -> "completed"
      [] op = "reject" -> "rejected"

\* the update_task call of the handler and its 200 response
LifecycleWrite(r) ==
    /\ reqs[r].op \in LifecycleOps
    /\ tasks' = update_status(tasks, reqs[r].task, TargetStatus(reqs[r].op))
    /\ reqs' = [reqs EXCEPT ![r] = Idle]
    /\ UNCHANGED <<last_assigned_index, notAnnot>>

AnnotNext ==
    \/ \E p \in Priorities : CreateTask(p)
    \/ \E t \in TaskIds : DeleteTask(t)
    \/ \E r \in ReqIds, t \in TaskIds, u \in AnnotUsers : AssignTaskRead(r, t, u)
    \/ \E r \in ReqIds : AssignTaskWrite(r)
    \/ \E r \in ReqIds, user_list \in UserLists : AssignRoundRobinRead(r, user_list)
    \/ \E r \in ReqIds : AssignRoundRobinStep(r)
    \/ \E r \in ReqIds : AssignRoundRobinReturn(r)
    \/ \E r \in ReqIds, op \in LifecycleOps, t \in TaskIds, u \in AnnotUsers : LifecycleRead(r, op, t, u)
    \/ \E r \in ReqIds : LifecycleWrite(r)

(***************************************************************************)
(* Authentication service (src/services/auth-serv)                         *)
(***************************************************************************)
AuthReqIds == 1..MaxAuthReq
Usernames == {"admin", "bob"}

\* ACCESS_TOKEN_EXPIRE_MINUTES
ACCESS_TOKEN_EXPIRE_MINUTES == 60

\* VALID_ROLES of users/models.py
VALID_ROLES == {"admin", "steward", "annotator", "labeler", "analyst"}

\* valid_roles of update_user_role
UpdateValidRoles == {"admin", "steward", "annotator", "labeler"}

\* valid_statuses of update_user_status
valid_statuses == {"active", "pending", "rejected"}

\* values the requests of the model carry
RoleInputs == {"admin", "annotator", "Admin"}
StatusInputs == {"", "active", "suspended"}
NewRoleInputs == {"admin", "annotator", "analyst"}
NewStatusInputs == {"active", "pending", "rejected", "suspended"}
PasswordInputs == {"Admin123", "bad"}

\* str.lower() on the role strings of the model
Lower(s) ==
    CASE s = "Admin" -> "admin"
      [] s = "Annotator" -> "annotator"
      [] s = "Financier" -> "financier"
      [] OTHER -> s

\* hash_password / verify_password: a salted hash verifies exactly the
\* password it was made from
hash_password(p) == <<"sha256_crypt", p>>
verify_password(p, hashed) == hashed = <<"sha256_crypt", p>>

\* the Authorization header of a request: absent, a bearer string that is
\* no token of this service, or a token create_token signed
NoHeader == [kind |-> "none"]
Garbage == [kind |-> "garbage"]
Credentials == {NoHeader, Garbage} \cup tokens

\* create_token: the claims plus exp = utcnow() + 60 minutes, signed
create_token(sub, role, t) ==
    [kind |-> "jwt", sub |-> sub, role |-> role, exp |-> t + ACCESS_TOKEN_EXPIRE_MINUTES]

\* decode_token: the payload when the signature verifies and exp has not
\* passed, else None (here: Garbage)
decode_token(tok, t) ==
    IF tok.kind = "jwt" /\ tok.exp >= t THEN tok ELSE Garbage

\* get_token + require_role(allowed): 0 when the request passes, else the
\* status code of the HTTPException
require_role(allowed, cred, t) ==
    IF cred.kind = "none" THEN 401
    ELSE IF decode_token(cred, t).kind # "jwt" THEN 401
    ELSE IF Lower(decode_token(cred, t).role) \notin allowed THEN 403
    ELSE 0

\* find_one({"username": name}): the position of the first match, 0 if none
find_one(us, name) ==
    IF \E i \in 1..Len(us) : us[i].username = name
    THEN CHOOSE i \in 1..Len(us) :
            /\ us[i].username = name
            /\ \A j \in 1..(i - 1) : us[j].username # name
    ELSE 0

\* update_one({"username": name}, {"$set": {"status": st}}): the first match
set_status(us, name, st) ==
    IF find_one(us, name) = 0 THEN us
    ELSE [us EXCEPT ![find_one(us, name)] = [@ EXCEPT !.status = st]]

\* update_one({"username": name}, {"$set": {"role": role}})
set_role(us, name, role) ==
    IF find_one(us, name) = 0 THEN us
    ELSE [us EXCEPT ![find_one(us, name)] = [@ EXCEPT !.role = role]]

\* the record kept of an answered request: the handler, the status code and
\* whether the request's Authorization header passes require_role(["admin"])
Resp(op, code, cred) ==
    [op |-> op, code |-> code, admin |-> require_role({"admin"}, cred, now) = 0]

AuthInit ==
    /\ users = <<>>
    /\ tokens = {}
    /\ now = 0
    /\ authReqs = [r \in AuthReqIds |-> Idle]
    /\ authResp = [op |-> "none", code |-> 0, admin |-> FALSE]

\* time passes
Tick ==
    /\ now < MaxTicks * TickMinutes
    /\ now' = now + TickMinutes
    /\ UNCHANGED <<users, tokens, authReqs, authResp, notAuth>>

\* LoginCode without the block on rejected users
LoginCodeNoRejectedBlock(us, name, pw) ==
    IF find_one(us, name) = 0 THEN 401
    ELSE IF ~verify_password(pw, us[find_one(us, name)].password) THEN 401
    ELSE IF us[find_one(us, name)].status = "pending" THEN 403
    ELSE 200

\* login: the status code of the response
LoginCode(us, name, pw) ==
    IF find_one(us, name) = 0 THEN 401
    ELSE IF ~verify_password(pw, us[find_one(us, name)].password) THEN 401
    ELSE IF us[find_one(us, name)].status = "pending" THEN 403
    ELSE IF us[find_one(us, name)].status = "rejected" THEN 403
    ELSE 200

\* login, whole handler (one find_one): the token is made from the stored
\* username and role
Login(name, pw) ==
    /\ LET code == LoginCode(users, name, pw)
           user == users[find_one(users, name)]
       IN /\ code = 200 =>
                Cardinality(tokens \cup {create_token(user.username, user.role, now)}) <= MaxTokens
          /\ tokens' = IF code = 200
                       THEN tokens \cup {create_token(user.username, user.role, now)}
                       ELSE tokens
          /\ authResp' = [op |-> "login", code |-> code, admin |-> FALSE,
                          username |-> name, password |-> pw, at |-> now,
                          token |-> IF code = 200
                                    THEN create_token(user.username, user.role, now)
                                    ELSE NoHeader]
    /\ UNCHANGED <<users, now, authReqs, notAuth>>

\* create_user up to the await of insert_one: 400 for a role outside
\* VALID_ROLES or a username find_one finds.  The route declares no
\* dependency on require_role; cred is whatever header the request carries.
CreateUserFind(r, name, pw, role, status, cred) ==
    /\ authReqs[r] = Idle
    /\ role \in VALID_ROLES
    /\ find_one(users, name) = 0
    /\ authReqs' = [authReqs EXCEPT ![r] =
            [op |-> "create_user", username |-> name, password |-> pw,
             role |-> role, status |-> status,
             admin |-> require_role({"admin"}, cred, now) = 0]]
    /\ UNCHANGED <<users, tokens, now, authResp, notAuth>>

\* create_user: hash_password, the status default, insert_one, the response
CreateUserInsert(r) ==
    /\ authReqs[r].op = "create_user"
    /\ Len(users) < MaxUsers
    /\ LET q == authReqs[r]
           status == IF q.status # "" THEN q.status ELSE "pending"
       IN /\ users' = Append(users, [username |-> q.username,
                                     password |-> hash_password(q.password),
                                     role |-> Lower(q.role), status |-> status])
          /\ authResp' = [op |-> "create_user", code |-> 200, admin |-> q.admin]
    /\ authReqs' = [authReqs EXCEPT ![r] = Idle]
    /\ UNCHANGED <<tokens, now, notAuth>>

\* create_admin_temp: an unconditional insert_one
CreateAdminTemp ==
    /\ Len(users) < MaxUsers
    /\ users' = Append(users, [username |-> "admin", password |-> hash_password("Admin123"),
                               role |-> "admin", status |-> "active"])
    /\ authResp' = [op |-> "create_admin", code |-> 200, admin |-> FALSE]
    /\ UNCHANGED <<tokens, now, authReqs, notAuth>>

\* approve_user behind require_role(["admin"]); 404 when nothing matched
ApproveUser(name, cred) ==
    /\ require_role({"admin"}, cred, now) = 0
    /\ find_one(users, name) # 0
    /\ users' = set_status(users, name, "active")
    /\ authResp' = Resp("approve", 200, cred)
    /\ UNCHANGED <<tokens, now, authReqs, notAuth>>

\* reject_user behind require_role(["admin"]); 404 when nothing matched
RejectUser(name, cred) ==
    /\ require_role({"admin"}, cred, now) = 0
    /\ find_one(users, name) # 0
    /\ users' = set_status(users, name, "rejected")
    /\ authResp' = Resp("reject", 200, cred)
    /\ UNCHANGED <<tokens, now, authReqs, notAuth>>

\* update_user_status behind require_role(["admin"]); 400 for a status
\* outside valid_statuses, 404 when nothing matched
UpdateUserStatus(name, status, cred) ==
    /\ require_role({"admin"}, cred, now) = 0
    /\ status \in valid_statuses
    /\ find_one(users, name) # 0
    /\ users' = set_status(users, name, status)
    /\ authResp' = Resp("update_status", 200, cred)
    /\ UNCHANGED <<tokens, now, authReqs, notAuth>>

\* update_user_role behind require_role(["admin"]); 400 for a role outside
\* valid_roles, 404 when nothing matched
UpdateUserRole(name, new_role, cred) ==
    /\ require_role({"admin"}, cred, now) = 0
    /\ new_role \in UpdateValidRoles
    /\ find_one(users, name) # 0
    /\ users' = set_role(users, name, new_role)
    /\ authResp' = Resp("update_role", 200, cred)
    /\ UNCHANGED <<tokens, now, authReqs, notAuth>>

\* get_all_users / list_pending_users behind require_role(["admin"])
ListUsers(op, cred) ==
    /\ require_role({"admin"}, cred, now) = 0
    /\ authResp' = Resp(op, 200, cred)
    /\ UNCHANGED <<users, tokens, now, authReqs, notAuth>>

AuthNext ==
    \/ Tick
    \/ \E name \in Usernames, pw \in PasswordInputs : Login(name, pw)
    \/ \E r \in AuthReqIds, name \in Usernames, role \in RoleInputs,
          status \in StatusInputs, cred \in Credentials :
            CreateUserFind(r, name, "Admin123", role, status, cred)
    \/ \E r \in AuthReqIds : CreateUserInsert(r)
    \/ CreateAdminTemp
    \/ \E name \in Usernames, cred \in Credentials : ApproveUser(name, cred)
    \/ \E name \in Usernames, cred \in Credentials : RejectUser(name, cred)
    \/ \E name \in Usernames, status \in NewStatusInputs, cred \in Credentials :
            UpdateUserStatus(name, status, cred)
    \/ \E name \in Usernames, role \in NewRoleInputs, cred \in Credentials :
            UpdateUserRole(name, role, cred)
    \/ \E op \in {"get_all_users", "list_pending_users"}, cred \in Credentials : ListUsers(op, cred)

(***************************************************************************)
(* EthiMask service (src/services/ethimask-serv/main.py)                   *)
(*                                                                         *)
(* Numbers are kept exact as integers: encodings in tenths, weights and    *)
(* bias in hundredths, the perceptron's score in thousandths.  The masked  *)
(* value itself is not represented, only the level and technique chosen.   *)
(***************************************************************************)
CfgReqIds == 1..MaxCfgReq
MaskingLevel == {"none", "partial", "full", "encrypted"}
MaskingTechnique ==
    {"pseudonymization", "generalization", "suppression", "perturbation",
     "tokenization", "hashing", "encryption"}
UserRole == {"admin", "steward", "annotator", "labeler", "analyst", "external"}

\* the request bodies the model sends
MaskRoles == {"steward", "analyst"}
EntityTypes == {"cin", "email"}
PolicyEntityTypes == {"cin", "*"}
Sensitivities == {"low", "critical"}
Contexts == {"default", "internal"}
Purposes == {"general"}
DataFields == {"f1"}
DetectionFields == {"f1", "f2"}
PolicyLevels == {"none", "partial"}
PolicyTechniques == {"hashing"}
ConfigInputs ==
    {[ws |-> 35, wr |-> -30, wc |-> 20, wp |-> 15, bias |-> -40],
     [ws |-> 100, wr |-> 0, wc |-> 0, wp |-> 0, bias |-> -50]}
Detections ==
    [field : DetectionFields, entity_type : EntityTypes, sensitivity_level : Sensitivities]
DetectionLists == UNION {[1..n -> Detections] : n \in 0..MaxMaskDetections}

NoDoc == [missing |-> TRUE]

\* ConfigManager.DEFAULT_CONFIG, MaskingPerceptron.__init__
DEFAULT_CONFIG == [weights |-> <<35, -30, 20, 15>>, bias |-> 40]

\* ConfigManager.get_config: the "global_config" document when there is a
\* document store and the document exists, else the defaults
get_config(has_db, doc) ==
    IF has_db /\ doc # NoDoc THEN [weights |-> doc.weights, bias |-> doc.bias]
    ELSE DEFAULT_CONFIG

\* the encoding with the order of the sensitivities reversed
sensitivity_encoding_Reversed(s) ==
    CASE s = "low" -> 10 [] s = "medium" -> 8 [] s = "high" -> 5
      [] s = "critical" -> 2 [] OTHER -> 5

sensitivity_encoding(s) ==
    CASE s = "low" -> 2 [] s = "medium" -> 5 [] s = "high" -> 8
      [] s = "critical" -> 10 [] OTHER -> 5
role_encoding(r) ==
    CASE r = "admin" -> 0 [] r = "steward" -> 3 [] r = "analyst" -> 5
      [] r = "annotator" -> 6 [] r = "labeler" -> 8 [] r = "external" -> 10
      [] OTHER -> 5
context_encoding(c) ==
    CASE c = "internal" -> 2 [] c = "analysis" -> 3 [] c = "display" -> 5
      [] c = "export" -> 7 [] c = "api" -> 6 [] c = "external" -> 9
      [] c = "default" -> 5 [] OTHER -> 5
purpose_encoding(p) ==
    CASE p = "internal_research" -> 2 [] p = "compliance" -> 3
      [] p = "research" -> 4 [] p = "general" -> 5 [] p = "marketing" -> 7
      [] p = "third_party" -> 9 [] OTHER -> 5

encode_features(sensitivity, role, context, purpose) ==
    <<sensitivity_encoding(Lower(sensitivity)), role_encoding(role),
      context_encoding(Lower(context)), purpose_encoding(Lower(purpose))>>

\* score = dot(features, weights) + bias, in thousandths
Score(p, sensitivity, role, context, purpose) ==
    LET f == encode_features(sensitivity, role, context, purpose)
    IN f[1] * p.weights[1] + f[2] * p.weights[2] + f[3] * p.weights[3]
         + f[4] * p.weights[4] + 10 * p.bias

\* prob = 1 / (1 + exp(-5 * score)).  prob < 0.25 iff score < -ln(3)/5,
\* prob < 0.50 iff score < 0, prob < 0.75 iff score < ln(3)/5, and
\* ln(3)/5 = 0.21972..., which lies between 219 and 220 thousandths.
decide_masking(p, sensitivity, role, context, purpose) ==
    LET score == Score(p, sensitivity, role, context, purpose)
    IN IF score <= -220 THEN "none"
       ELSE IF score < 0 THEN "partial"
       ELSE IF score <= 219 THEN "full"
       ELSE "encrypted"

\* PolicyManager.DEFAULT_POLICIES
DEFAULT_POLICIES ==
    <<[entity_type |-> "*", role |-> "admin", level |-> "none", technique |-> "pseudonymization"],
      [entity_type |-> "cin", role |-> "steward", level |-> "partial", technique |-> "pseudonymization"],
      [entity_type |-> "*", role |-> "labeler", level |-> "full", technique |-> "suppression"],
      [entity_type |-> "*", role |-> "external", level |-> "encrypted", technique |-> "hashing"]>>

\* db.masking_policies.find_one({"entity_type": e, "role": r}), as the set of
\* the documents that match (at most one: add_policy upserts on that key)
masking_policies_find(coll, e, r) ==
    {p \in coll : p.entity_type = e /\ p.role = r}

\* PolicyManager.get_policy
get_policy(has_db, coll, entity_type, role) ==
    LET exact == masking_policies_find(coll, entity_type, role)
        doc == IF exact # {} THEN exact ELSE masking_policies_find(coll, "*", role)
        defaults == SelectSeq(DEFAULT_POLICIES,
                        LAMBDA p : /\ p.entity_type = entity_type \/ p.entity_type = "*"
                                   /\ p.role = role)
    IN IF has_db /\ doc # {} THEN CHOOSE p \in doc : TRUE
       ELSE IF Len(defaults) > 0 THEN defaults[1]
       ELSE [entity_type |-> entity_type, role |-> role,
             level |-> "full", technique |-> "suppression"]

\* ContextualMasker.mask: the technique it reports
mask_technique(level, technique) ==
    IF level = "none" THEN "none" ELSE technique

\* the loop body of mask_data for one detection: the audit entry it appends.
\* The perceptron's decision is computed first and then replaced by the
\* policy's level whenever get_policy returns a policy, which it always does.
MaskDetection(has_db, coll, role, d) ==
    LET policy == get_policy(has_db, coll, d.entity_type, role)
    IN [field |-> d.field, entity_type |-> d.entity_type,
        sensitivity |-> d.sensitivity_level, masking_level |-> policy.level,
        technique |-> mask_technique(policy.level, policy.technique),
        role |-> role]

MaskInit ==
    /\ db \in BOOLEAN
    /\ masking_policies = {}
    /\ ethimask_config = NoDoc
    /\ perceptron = DEFAULT_CONFIG
    /\ cfgReqs = [r \in CfgReqIds |-> Idle]
    /\ audit_logs = 0
    /\ maskResp = [op |-> "none"]

MaskParked ==
    /\ db = TRUE
    /\ masking_policies = {}
    /\ ethimask_config = NoDoc
    /\ perceptron = DEFAULT_CONFIG
    /\ cfgReqs = [r \in CfgReqIds |-> Idle]
    /\ audit_logs = 0
    /\ maskResp = [op |-> "none"]

\* POST /policies: PolicyManager.add_policy upserts on (entity_type, role);
\* without a document store nothing is kept
AddPolicy(entity_type, role, level, technique) ==
    LET policy == [entity_type |-> entity_type, role |-> role,
                   level |-> level, technique |-> technique]
        upserted == (masking_policies \ masking_policies_find(masking_policies, entity_type, role))
                        \cup {policy}
    IN /\ db => Cardinality(upserted) <= MaxPolicies
       /\ masking_policies' = IF db THEN upserted ELSE masking_policies
       /\ UNCHANGED <<db, ethimask_config, perceptron, cfgReqs, audit_logs, maskResp, notMask>>

\* POST /config, first segment of ConfigManager.update_config: the awaited
\* upsert of the "global_config" document
UpdateConfigPersist(r, config) ==
    LET new_weights == <<config.ws, config.wr, config.wc, config.wp>>
    IN /\ db
       /\ cfgReqs[r] = Idle
       /\ ethimask_config' = [weights |-> new_weights, bias |-> config.bias]
       /\ cfgReqs' = [cfgReqs EXCEPT ![r] =
              [op |-> "update_config", weights |-> new_weights, bias |-> config.bias]]
       /\ UNCHANGED <<db, masking_policies, perceptron, audit_logs, maskResp, notMask>>

\* POST /config, second segment: perceptron.update_weights
UpdateConfigApply(r) ==
    /\ cfgReqs[r].op = "update_config"
    /\ perceptron' = [weights |-> cfgReqs[r].weights, bias |-> cfgReqs[r].bias]
    /\ cfgReqs' = [cfgReqs EXCEPT ![r] = Idle]
    /\ UNCHANGED <<db, masking_policies, ethimask_config, audit_logs, maskResp, notMask>>

\* POST /config without a document store: no await, the perceptron only
UpdateConfigNoDb(config) ==
    /\ ~db
    /\ perceptron' = [weights |-> <<config.ws, config.wr, config.wc, config.wp>>,
                      bias |-> config.bias]
    /\ UNCHANGED <<db, masking_policies, ethimask_config, cfgReqs, audit_logs, maskResp, notMask>>

\* POST /mask.  The policy reads of one request are taken against one state
\* of the collection.
MaskData(role, context, purpose, detections) ==
    LET kept == SelectSeq(detections, LAMBDA d : d.field \in DataFields)
        audit_logs_batch ==
            [i \in 1..Len(kept) |-> MaskDetection(db, masking_policies, role, kept[i])]
        inserted == IF db /\ Len(kept) > 0 THEN Len(kept) ELSE 0
    IN /\ audit_logs + inserted <= MaxAuditLogs
       /\ audit_logs' = audit_logs + inserted
       /\ maskResp' =
              [op |-> "mask", role |-> role, context |-> context, purpose |-> purpose,
               detections |-> detections,
               masking_applied |->
                   Len(SelectSeq(audit_logs_batch, LAMBDA e : e.technique # "none")),
               audit_log |-> audit_logs_batch]
       /\ UNCHANGED <<db, masking_policies, ethimask_config, perceptron, cfgReqs, notMask>>

MaskNext ==
    \/ \E e \in PolicyEntityTypes, r \in MaskRoles, l \in PolicyLevels, t \in PolicyTechniques :
           AddPolicy(e, r, l, t)
    \/ \E r \in CfgReqIds, c \in ConfigInputs : UpdateConfigPersist(r, c)
    \/ \E r \in CfgReqIds : UpdateConfigApply(r)
    \/ \E c \in ConfigInputs : UpdateConfigNoDb(c)
    \/ \E r \in MaskRoles, c \in Contexts, p \in Purposes, ds \in DetectionLists :
           MaskData(r, c, p, ds)

(***************************************************************************)
(* Access-decision simulator (src/ranger_integration/access_check.py)      *)
(***************************************************************************)
AccessRoles == {"admin", "data_steward", "labeler", "external", "annotator"}
AccessTags == {"CRITICAL", "SPI", "PII", "HIGH"}
TagLists == UNION {[1..n -> AccessTags] : n \in 0..MaxTags}
NoDecision == [pending |-> TRUE]

\* x in seq, for a Python list
InList(x, seq) == \E i \in 1..Len(seq) : seq[i] = x

\* the simulator with the steward removed from the SPI exemption
check_access_decision_StewardHashed(user_role, tags) ==
    IF InList("CRITICAL", tags) /\ user_role # "admin"
    THEN [allow |-> FALSE]
    ELSE IF InList("SPI", tags) /\ user_role # "admin"
    THEN [allow |-> TRUE, mask |-> "HASH"]
    ELSE IF InList("PII", tags)
    THEN [allow |-> TRUE, mask |-> "MASK"]
    ELSE [allow |-> TRUE, mask |-> None]

check_access_decision(user_role, tags) ==
    IF InList("CRITICAL", tags) /\ user_role # "admin"
    THEN [allow |-> FALSE]
    ELSE IF InList("SPI", tags) /\ user_role \notin {"admin", "data_steward"}
    THEN [allow |-> TRUE, mask |-> "HASH"]
    ELSE IF InList("PII", tags)
    THEN [allow |-> TRUE, mask |-> "MASK"]
    ELSE [allow |-> TRUE, mask |-> None]

AccessInit ==
    /\ acReq \in [user_role : AccessRoles, tags : TagLists]
    /\ acResp = NoDecision

AccessParked ==
    /\ acReq = [user_role |-> "admin", tags |-> <<>>]
    /\ acResp = NoDecision

CheckAccess ==
    /\ acResp = NoDecision
    /\ acResp' = check_access_decision(acReq.user_role, acReq.tags)
    /\ UNCHANGED <<acReq, notAccess>>

AccessNext == CheckAccess

(***************************************************************************)
(* Governance sync routines (src/atlas_integration, src/ranger_integration)*)
(*                                                                         *)
(* Both routines are synchronous.  Every client call is a requests.post    *)
(* followed by raise_for_status, so a call either returns or raises after  *)
(* its request has gone out; which one is up to the remote product.        *)
(***************************************************************************)
DatasetNames == {"ds"}
AtlasDetections ==
    [entity_type : {"CIN", "IBAN"}, sensitivity_level : {"critical", "low"},
     domain : {"Financier", "identite"}]
AnalyzeResponses == UNION {[1..n -> AtlasDetections] : n \in 0..MaxDetections}
RangerColumns == {"cin", "iban"}
RangerTagLists == {<<>>, <<"PII">>, <<"SPI", "CRITICAL">>, <<"HIGH">>}
ColumnsWithTags ==
    {c \in UNION {[1..n -> [column : RangerColumns, tags : RangerTagLists]] : n \in 0..MaxColumns} :
        \A i, j \in 1..Len(c) : i # j => c[i].column # c[j].column}

\* atlas_integration/mapper.py
map_detection(detection) ==
    [attribute |-> detection.entity_type, domain |-> detection.domain,
     sensitivity |-> detection.sensitivity_level]

\* atlas_integration/tags.py
build_tags(mapped) ==
    (IF mapped.sensitivity = "critical" THEN <<"CRITICAL">>
     ELSE IF mapped.sensitivity = "high" THEN <<"HIGH">>
     ELSE <<>>)
    \o (IF Lower(mapped.domain) = "financier" THEN <<"FINANCIAL", "SPI">>
        ELSE <<"PII">>)

\* the de-duplication loop of sync_analyze_response_to_atlas: the first
\* mapped detection of every attribute name, in order of appearance
RECURSIVE unique_attributes(_)
unique_attributes(detections) ==
    IF detections = <<>> THEN <<>>
    ELSE LET front == unique_attributes(SubSeq(detections, 1, Len(detections) - 1))
             mapped == map_detection(detections[Len(detections)])
         IN IF \E i \in 1..Len(front) : front[i].attribute = mapped.attribute
            THEN front
            ELSE Append(front, mapped)

\* the requests the attribute loop posts, in order
RECURSIVE AttributeRequests(_)
AttributeRequests(attrs) ==
    IF attrs = <<>> THEN <<>>
    ELSE LET tags == build_tags(attrs[1])
         IN <<[endpoint |-> "/entity", what |-> attrs[1].attribute]>>
            \o [i \in 1..Len(tags) |->
                  [endpoint |-> "/entity/guid/classifications", what |-> tags[i]]]
            \o AttributeRequests(Tail(attrs))

\* every request sync_analyze_response_to_atlas posts when nothing raises
AtlasRequests(detections, dataset_name) ==
    <<[endpoint |-> "/entity", what |-> dataset_name]>>
    \o AttributeRequests(unique_attributes(detections))

\* ranger_integration/tag_mapping.py
TAG_TO_POLICY(tag) ==
    CASE tag = "PII" -> [masking |-> "MASK", access |-> None]
      [] tag = "SPI" -> [masking |-> "HASH", access |-> None]
      [] tag = "CRITICAL" -> [masking |-> None, access |-> "DENY"]
      [] OTHER -> [masking |-> None, access |-> None]

\* the requests the inner loop of sync_policies_from_atlas_tags posts for
\* one (column, tag)
TagRequests(column, tag) ==
    LET rule == TAG_TO_POLICY(tag)
    IN (IF rule.masking # None
        THEN <<[endpoint |-> "/policies", what |-> <<column, tag, "mask", rule.masking>>]>>
        ELSE <<>>)
       \o (IF rule.access = "DENY"
           THEN <<[endpoint |-> "/policies", what |-> <<column, tag, "deny">>]>>
           ELSE <<>>)

RECURSIVE ColumnRequests(_, _)
ColumnRequests(column, tags) ==
    IF tags = <<>> THEN <<>>
    ELSE TagRequests(column, tags[1]) \o ColumnRequests(column, Tail(tags))

\* every request sync_policies_from_atlas_tags posts when nothing raises
RECURSIVE RangerRequests(_)
RangerRequests(columns_with_tags) ==
    IF columns_with_tags = <<>> THEN <<>>
    ELSE ColumnRequests(columns_with_tags[1].column, columns_with_tags[1].tags)
         \o RangerRequests(Tail(columns_with_tags))

SyncInit ==
    /\ mock_flag \in BOOLEAN
    /\ http_requests = <<>>
    /\ syncResp = [op |-> "none", input |-> <<>>, status |-> "none",
                   attributes_synced |-> <<>>, entities_synced |-> 0]

SyncParked ==
    /\ mock_flag = TRUE
    /\ http_requests = <<>>
    /\ syncResp = [op |-> "none", input |-> <<>>, status |-> "none",
                   attributes_synced |-> <<>>, entities_synced |-> 0]

\* sync_analyze_response_to_atlas; answered is the number of requests the
\* catalog answers before one raises
SyncAnalyzeResponseToAtlas(analyze_response, dataset_name, answered) ==
    LET all == AtlasRequests(analyze_response, dataset_name)
        attrs == unique_attributes(analyze_response)
    IN IF analyze_response = <<>>
       THEN /\ answered = 0
            /\ http_requests' = <<>>
            /\ syncResp' = [op |-> "atlas_sync", input |-> analyze_response,
                            status |-> "skipped",
                            attributes_synced |-> <<>>, entities_synced |-> 0]
            /\ UNCHANGED <<mock_flag, notSync>>
       ELSE /\ answered \in 0..Len(all)
            /\ http_requests' = SubSeq(all, 1, IF answered < Len(all) THEN answered + 1 ELSE Len(all))
            /\ syncResp' =
                  IF answered < Len(all)
                  THEN [op |-> "atlas_sync", input |-> analyze_response,
                        status |-> "raised",
                        attributes_synced |-> <<>>, entities_synced |-> 0]
                  ELSE [op |-> "atlas_sync", input |-> analyze_response,
                        status |-> "success",
                        attributes_synced |-> [i \in 1..Len(attrs) |-> attrs[i].attribute],
                        entities_synced |-> Len(attrs)]
            /\ UNCHANGED <<mock_flag, notSync>>

\* sync_policies_from_atlas_tags: it returns nothing
SyncPoliciesFromAtlasTags(columns_with_tags, answered) ==
    LET all == RangerRequests(columns_with_tags)
    IN /\ answered \in 0..Len(all)
       /\ http_requests' = SubSeq(all, 1, IF answered < Len(all) THEN answered + 1 ELSE Len(all))
       /\ syncResp' = [op |-> "ranger_sync", input |-> columns_with_tags,
                       status |-> IF answered < Len(all) THEN "raised" ELSE "returned",
                       attributes_synced |-> <<>>, entities_synced |-> 0]
       /\ UNCHANGED <<mock_flag, notSync>>

SyncNext ==
    \/ \E a \in AnalyzeResponses, d \in DatasetNames, k \in 0..(1 + 4 * MaxDetections) :
           SyncAnalyzeResponseToAtlas(a, d, k)
    \/ \E c \in ColumnsWithTags, k \in 0..(2 * MaxColumns) :
           SyncPoliciesFromAtlasTags(c, k)

(***************************************************************************)
(* Correction service (src/services/correction-serv/main.py)               *)
(*                                                                         *)
(* One cached dataset with one column, "email".  The document store is     *)
(* connected.  A uuid4 id is the pair (number of the detection run, row).  *)
(***************************************************************************)
CorrReqIds == 1..MaxCorrReq
RowIds == 0..(NumRows - 1)
CellValues == {"a@x.ma", "bad"}
DataFrames == [RowIds -> CellValues]
Unregistered == [r \in RowIds |-> "unregistered"]

\* CorrectionRequest.inconsistency_ids: absent or empty (every stored
\* inconsistency is targeted), or one id a detection run has handed out
CorrectionIdLists == {{}} \cup {{<<k, i>>} : k \in 1..detect_runs, i \in RowIds}

\* re.match(FORMAT_PATTERNS["email"], value)
MatchesEmail(value) == value = "a@x.ma"

\* InconsistencyDetector.detect_all on the "email" column: one format
\* inconsistency per value that does not match, never with a suggestion
detect_all(frame, check_format, run) ==
    IF check_format
    THEN {[id |-> <<run, i>>, column |-> "email", row_index |-> i,
           original_value |-> frame[i], suggested_correction |-> None,
           status |-> "suggested"] : i \in {j \in RowIds : ~MatchesEmail(frame[j])}}
    ELSE {}

\* AutoCorrector.apply_correction on a frame: the corrected frame
apply_correction(frame, inconsistency) ==
    IF inconsistency.suggested_correction = None
    THEN frame
    ELSE [frame EXCEPT ![inconsistency.row_index] = inconsistency.suggested_correction]

CorrInit ==
    /\ datasets_store = Unregistered
    /\ inconsistencies = {}
    /\ corrReqs = [r \in CorrReqIds |-> Idle]
    /\ detect_runs = 0
    /\ corrResp = [op |-> "none"]

\* POST /datasets/{dataset_id}/register
RegisterDataset(frame) ==
    /\ datasets_store' = frame
    /\ UNCHANGED <<inconsistencies, corrReqs, detect_runs, corrResp, notCorr>>

\* detect_inconsistencies up to the await of delete_many: 404 without the
\* cached dataset, else the batch is computed from the cached frame
DetectStart(r, check_format) ==
    /\ corrReqs[r] = Idle
    /\ datasets_store # Unregistered
    /\ detect_runs < MaxRuns
    /\ detect_runs' = detect_runs + 1
    /\ corrReqs' = [corrReqs EXCEPT ![r] =
          [op |-> "detect", pc |-> "delete_many",
           batch |-> detect_all(datasets_store, check_format, detect_runs + 1)]]
    /\ UNCHANGED <<datasets_store, inconsistencies, corrResp, notCorr>>

\* the delete_many of the request takes effect; with an empty batch the
\* handler returns
DetectDelete(r) ==
    /\ corrReqs[r].op = "detect"
    /\ corrReqs[r].pc = "delete_many"
    /\ inconsistencies' = {}
    /\ IF corrReqs[r].batch = {}
       THEN /\ corrReqs' = [corrReqs EXCEPT ![r] = Idle]
            /\ corrResp' = [op |-> "detect", total_inconsistencies |-> 0]
       ELSE /\ corrReqs' = [corrReqs EXCEPT ![r] = [@ EXCEPT !.pc = "insert_many"]]
            /\ UNCHANGED corrResp
    /\ UNCHANGED <<datasets_store, detect_runs, notCorr>>

\* the insert_many of the request takes effect and the handler returns
DetectInsert(r) ==
    /\ corrReqs[r].op = "detect"
    /\ corrReqs[r].pc = "insert_many"
    /\ inconsistencies' = inconsistencies \cup corrReqs[r].batch
    /\ corrReqs' = [corrReqs EXCEPT ![r] = Idle]
    /\ corrResp' = [op |-> "detect",
                    total_inconsistencies |-> Cardinality(corrReqs[r].batch)]
    /\ UNCHANGED <<datasets_store, detect_runs, notCorr>>

\* apply_corrections up to the await of the find cursor: 404 without the
\* cached dataset, else the cached frame is read
CorrectStart(r, inconsistency_ids) ==
    /\ corrReqs[r] = Idle
    /\ datasets_store # Unregistered
    /\ corrReqs' = [corrReqs EXCEPT ![r] =
          [op |-> "correct", df |-> datasets_store,
           inconsistency_ids |-> inconsistency_ids]]
    /\ UNCHANGED <<datasets_store, inconsistencies, detect_runs, corrResp, notCorr>>

\* apply_corrections from the find on: the targets are filtered, an
\* AutoCorrector is built on a copy of the frame read before, and nothing is
\* asked of it (the loop over to_correct is a comment in the source): the
\* copy is stored back and the counts are the zeros they were set to.
\* raises is whether "if db and ..." raises on the store handle.
CorrectFinish(r, raises) ==
    /\ corrReqs[r].op = "correct"
    /\ LET q == corrReqs[r]
           to_correct == IF q.inconsistency_ids = {} THEN inconsistencies
                         ELSE {i \in inconsistencies : i.id \in q.inconsistency_ids}
       IN /\ (inconsistencies = {} => ~raises)
          /\ datasets_store' = IF inconsistencies = {} THEN datasets_store ELSE q.df
          /\ corrResp' =
                IF inconsistencies # {} /\ raises
                THEN [op |-> "correct", code |-> 500, targets |-> {i.id : i \in to_correct},
                      corrections_applied |-> 0, corrections_rejected |-> 0]
                ELSE [op |-> "correct", code |-> 200,
                      targets |-> IF inconsistencies = {} THEN {} ELSE {i.id : i \in to_correct},
                      corrections_applied |-> 0, corrections_rejected |-> 0]
    /\ corrReqs' = [corrReqs EXCEPT ![r] = Idle]
    /\ UNCHANGED <<inconsistencies, detect_runs, notCorr>>

CorrNext ==
    \/ \E frame \in DataFrames : RegisterDataset(frame)
    \/ \E r \in CorrReqIds, check_format \in BOOLEAN : DetectStart(r, check_format)
    \/ \E r \in CorrReqIds : DetectDelete(r)
    \/ \E r \in CorrReqIds : DetectInsert(r)
    \/ \E r \in CorrReqIds, ids \in CorrectionIdLists : CorrectStart(r, ids)
    \/ \E r \in CorrReqIds, raises \in BOOLEAN : CorrectFinish(r, raises)

(***************************************************************************)
(* Classification service (src/services/classification-serv/main.py)       *)
(*                                                                         *)
(* The document store is connected.  A pending classification is known by  *)
(* its uuid4 "id"; the document find_one returns carries the "_id" the     *)
(* store gave it, and the store refuses a second document with that "_id"  *)
(* in one collection (DuplicateKeyError).                                  *)
(***************************************************************************)
ValReqIds == 1..MaxValReq
ItemIds == 1..NumItems
ValidateActions == {"confirm", "reject"}

\* the number of documents of a collection with that id
CountOf(coll, id) == Cardinality({k \in 1..Len(coll) : coll[k].id = id})

\* collection.insert_one(doc): DuplicateKeyError when a document of the
\* collection already has doc's "_id"
insert_one(coll, doc) ==
    IF \E k \in 1..Len(coll) : coll[k]._id = doc._id
    THEN [ok |-> FALSE, coll |-> coll]
    ELSE [ok |-> TRUE, coll |-> Append(coll, doc)]

ClsInit ==
    /\ pending_classifications = {}
    /\ validated_classifications = <<>>
    /\ added = 0
    /\ valReqs = [r \in ValReqIds |-> Idle]
    /\ valResponses = [i \in ItemIds |-> {}]

\* POST /add-pending: a new document under a fresh uuid4 id
AddPending ==
    /\ added < NumItems
    /\ added' = added + 1
    /\ pending_classifications' = pending_classifications \cup {[id |-> added + 1, _id |-> added + 1]}
    /\ UNCHANGED <<validated_classifications, valReqs, valResponses, notCls>>

\* validate_classification up to the await of delete_one: 404 when find_one
\* finds no pending document with the id
ValidateFind(r, id, action) ==
    /\ valReqs[r] = Idle
    /\ \E doc \in pending_classifications :
          /\ doc.id = id
          /\ valReqs' = [valReqs EXCEPT ![r] =
                [op |-> "validate", pc |-> "delete_one", classification |-> doc,
                 action |-> action]]
    /\ UNCHANGED <<pending_classifications, validated_classifications, added,
                   valResponses, notCls>>

\* delete_one({"id": classification_id}); any action but "confirm" then returns
ValidateDelete(r) ==
    /\ valReqs[r].op = "validate"
    /\ valReqs[r].pc = "delete_one"
    /\ pending_classifications' =
          {d \in pending_classifications : d.id # valReqs[r].classification.id}
    /\ IF valReqs[r].action = "confirm"
       THEN /\ valReqs' = [valReqs EXCEPT ![r] = [@ EXCEPT !.pc = "insert_one"]]
            /\ UNCHANGED valResponses
       ELSE /\ valReqs' = [valReqs EXCEPT ![r] = Idle]
            /\ valResponses' = [valResponses EXCEPT ![valReqs[r].classification.id] =
                  @ \cup {<<valReqs[r].action, 200>>}]
    /\ UNCHANGED <<validated_classifications, added, notCls>>

\* validated_classifications.insert_one(classification) and the return; an
\* exception of insert_one is not caught (500)
ValidateInsert(r) ==
    /\ valReqs[r].op = "validate"
    /\ valReqs[r].pc = "insert_one"
    /\ LET res == insert_one(validated_classifications,
                             [id |-> valReqs[r].classification.id,
                              _id |-> valReqs[r].classification._id,
                              validation |-> valReqs[r].action])
       IN /\ validated_classifications' = res.coll
          /\ valResponses' = [valResponses EXCEPT ![valReqs[r].classification.id] =
                @ \cup {<<"confirm", IF res.ok THEN 200 ELSE 500>>}]
    /\ valReqs' = [valReqs EXCEPT ![r] = Idle]
    /\ UNCHANGED <<pending_classifications, added, notCls>>

ClsNext ==
    \/ AddPending
    \/ \E r \in ValReqIds, id \in ItemIds, action \in ValidateActions :
           ValidateFind(r, id, action)
    \/ \E r \in ValReqIds : ValidateDelete(r)
    \/ \E r \in ValReqIds : ValidateInsert(r)

(***************************************************************************)
(* annotation-serv/main.py: bulk assignment, one /assign call at a time.   *)
(***************************************************************************)
LoadTaskIds == 1..NumLoadTasks
LoadUserLists == UserLists \cup {<<"u2", "u1">>}
MaxPerUserInputs == 1..MaxPerUser
LoadLifecycleOps == {"start", "submit"}

\* AssignmentManager.get_user_load: the tasks whose assigned_to is the user
\* and whose status is assigned or in_progress
get_user_load(tk, u) ==
    Cardinality({t \in DOMAIN tk : /\ InDb(tk, t)
                                   /\ tk[t].assigned_to = u
                                   /\ tk[t].status \in {"assigned", "in_progress"}})

\* the filter with "l <= max_per_user" in place of "l < max_per_user"
available_AtLimit(user_list, loads, max_per_user) ==
    {k \in 1..Len(user_list) : loads[user_list[k]] <= max_per_user}

\* available = {u: l for u, l in loads.items() if l < max_per_user}, as the
\* positions of these users in the list
available(user_list, loads, max_per_user) ==
    {k \in 1..Len(user_list) : loads[user_list[k]] < max_per_user}

\* min(available, key=available.get): the first user, in the order of the
\* dict, whose load is minimal
min_available(user_list, loads, max_per_user) ==
    LET A == available(user_list, loads, max_per_user)
        k == CHOOSE i \in A : \A j \in A :
                 \/ loads[user_list[i]] < loads[user_list[j]]
                 \/ loads[user_list[i]] = loads[user_list[j]] /\ i <= j
    IN user_list[k]

\* assign_tasks (strategy load_based) -> assign_load_based: the awaits of
\* get_pending_tasks and of get_user_load for each user, with no other
\* request in between.
AssignLoadBasedRead(r, user_list, max_per_user) ==
    /\ reqs[r] = Idle
    /\ reqs' = [reqs EXCEPT ![r] =
                   [op |-> "assign_load_based", users |-> user_list,
                    max_per_user |-> max_per_user,
                    pending |-> get_pending_tasks(tasks), i |-> 0,
                    loads |-> [u \in {user_list[k] : k \in 1..Len(user_list)}
                                  |-> get_user_load(tasks, u)],
                    assignments |-> <<>>]]
    /\ UNCHANGED <<last_assigned_index, tasks, notAnnot>>

\* one iteration of the loop of assign_load_based that assigns a task
AssignLoadBasedStep(r) ==
    /\ reqs[r].op = "assign_load_based"
    /\ reqs[r].i < Len(reqs[r].pending)
    /\ available(reqs[r].users, reqs[r].loads, reqs[r].max_per_user) # {}
    /\ LET q == reqs[r]
           t == q.pending[q.i + 1]
           user == min_available(q.users, q.loads, q.max_per_user)
       IN /\ tasks' = update_task(tasks, t, "assigned", user)
          /\ reqs' = [reqs EXCEPT ![r] =
                         [q EXCEPT !.i = q.i + 1,
                                   !.loads[user] = q.loads[user] + 1,
                                   !.assignments = Append(q.assignments, <<t, user>>)]]
    /\ UNCHANGED <<last_assigned_index, notAnnot>>

\* the end of assign_load_based: the list is exhausted, or "break" because
\* no user is available
AssignLoadBasedReturn(r) ==
    /\ reqs[r].op = "assign_load_based"
    /\ \/ reqs[r].i = Len(reqs[r].pending)
       \/ available(reqs[r].users, reqs[r].loads, reqs[r].max_per_user) = {}
    /\ reqs' = [reqs EXCEPT ![r] = Idle]
    /\ UNCHANGED <<tasks, last_assigned_index, notAnnot>>

LoadInit ==
    /\ tasks = [t \in LoadTaskIds |-> [status |-> "absent", assigned_to |-> None, priority |-> "medium"]]
    /\ reqs = [r \in ReqIds |-> Idle]
    /\ last_assigned_index = 0

\* the requests are served one after the other: a single slot
LoadNext ==
    \/ \E p \in Priorities : CreateTask(p)
    \/ \E user_list \in LoadUserLists, max_per_user \in MaxPerUserInputs :
           AssignLoadBasedRead(1, user_list, max_per_user)
    \/ AssignLoadBasedStep(1)
    \/ AssignLoadBasedReturn(1)
    \/ \E t \in LoadTaskIds, u \in AnnotUsers : AssignTaskRead(1, t, u)
    \/ AssignTaskWrite(1)
    \/ \E op \in LoadLifecycleOps, t \in LoadTaskIds, u \in AnnotUsers : LifecycleRead(1, op, t, u)
    \/ LifecycleWrite(1)

(***************************************************************************)
(* annotation-serv/main.py: round-robin bulk assignment, one /assign call  *)
(* at a time over up to three users.                                       *)
(***************************************************************************)
RoundRobinTaskIds == 1..NumRoundRobinTasks
RoundRobinUserLists == UserLists \cup {<<"u1", "u2", "u3">>}

RoundRobinInit ==
    /\ tasks = [t \in RoundRobinTaskIds |-> [status |-> "absent", assigned_to |-> None, priority |-> "medium"]]
    /\ reqs = [r \in ReqIds |-> Idle]
    /\ last_assigned_index = 0

\* the requests are served one after the other: a single slot
RoundRobinNext ==
    \/ CreateTask("medium")
    \/ \E user_list \in RoundRobinUserLists : AssignRoundRobinRead(1, user_list)
    \/ AssignRoundRobinStep(1)
    \/ AssignRoundRobinReturn(1)

(***************************************************************************)
(* airflow/dags/data_processing_pipeline.py: one run of the DAG            *)
(* data_processing_pipeline under the scheduler's trigger rules.           *)
(***************************************************************************)
DummyOperators == {"start", "end"}
PythonOperators ==
    {"check_cleaning_health", "check_taxonomie_health", "check_presidio_health",
     "upload_dataset", "profile_data", "clean_data", "detect_pii_taxonomie",
     "detect_pii_presidio", "classify_sensitivity", "detect_inconsistencies",
     "apply_corrections", "evaluate_quality", "create_annotation_tasks",
     "apply_masking", "store_results"}
DagTasks == DummyOperators \cup PythonOperators
HealthChecks == {"check_cleaning_health", "check_taxonomie_health", "check_presidio_health"}

\* the edges written with >> under "TASK DEPENDENCIES": upstream[t] is the
\* set of tasks t directly waits for
upstream(t) ==
    CASE t = "start" -> {}
      [] t \in HealthChecks -> {"start"}
      [] t = "upload_dataset" -> HealthChecks
      [] t = "profile_data" -> {"upload_dataset"}
      [] t = "clean_data" -> {"profile_data"}
      [] t \in {"detect_pii_taxonomie", "detect_pii_presidio"} -> {"clean_data"}
      [] t = "classify_sensitivity" -> {"detect_pii_taxonomie", "detect_pii_presidio"}
      [] t = "detect_inconsistencies" -> {"classify_sensitivity"}
      [] t = "apply_corrections" -> {"detect_inconsistencies"}
      [] t = "evaluate_quality" -> {"apply_corrections"}
      [] t \in {"create_annotation_tasks", "apply_masking"} -> {"evaluate_quality"}
      [] t = "store_results" -> {"create_annotation_tasks", "apply_masking"}
      [] t = "end" -> {"store_results"}

\* store left with the operator default
trigger_rule_Default(t) == "all_success"

\* trigger_rule=TriggerRule.ALL_DONE on store; the operator default elsewhere
trigger_rule(t) == IF t = "store_results" THEN "all_done" ELSE "all_success"

\* default_args['retries']
retries == 3

FinishedStates == {"success", "failed", "upstream_failed"}

\* the scheduler queues a task instance once its trigger rule is met.
\* try_number counts the tries of an instance while it is unfinished; the
\* count is dropped when the instance finishes.
RunTask(t) ==
    /\ ti[t] = "none"
    /\ \/ trigger_rule(t) = "all_success" /\ \A u \in upstream(t) : ti[u] = "success"
       \/ trigger_rule(t) = "all_done" /\ \A u \in upstream(t) : ti[u] \in FinishedStates
    /\ ti' = [ti EXCEPT ![t] = "running"]
    /\ try_number' = [try_number EXCEPT ![t] = try_number[t] + 1]
    /\ UNCHANGED notPipe

\* under all_success a task whose upstream failed is never run
MarkUpstreamFailed(t) ==
    /\ ti[t] = "none"
    /\ trigger_rule(t) = "all_success"
    /\ \E u \in upstream(t) : ti[u] \in {"failed", "upstream_failed"}
    /\ ti' = [ti EXCEPT ![t] = "upstream_failed"]
    /\ UNCHANGED <<try_number, notPipe>>

\* the callable returns. store_results reads quality_report.get(...) on the
\* value evaluate_quality pushed, which is None unless that task succeeded.
SucceedTask(t) ==
    /\ ti[t] = "running"
    /\ t = "store_results" => ti["evaluate_quality"] = "success"
    /\ ti' = [ti EXCEPT ![t] = "success"]
    /\ try_number' = [try_number EXCEPT ![t] = 0]
    /\ UNCHANGED notPipe

\* the callable raises: another try while tries remain, failed otherwise
FailTask(t) ==
    /\ ti[t] = "running"
    /\ t \in PythonOperators
    /\ ti' = [ti EXCEPT ![t] = IF try_number[t] <= retries THEN "up_for_retry" ELSE "failed"]
    /\ try_number' = [try_number EXCEPT ![t] = IF try_number[t] <= retries THEN try_number[t] ELSE 0]
    /\ UNCHANGED notPipe

\* the retry after retry_delay
RetryTask(t) ==
    /\ ti[t] = "up_for_retry"
    /\ ti' = [ti EXCEPT ![t] = "running"]
    /\ try_number' = [try_number EXCEPT ![t] = try_number[t] + 1]
    /\ UNCHANGED notPipe

PipeInit ==
    /\ ti = [t \in DagTasks |-> "none"]
    /\ try_number = [t \in DagTasks |-> 0]

PipeNext ==
    \/ \E t \in DagTasks : RunTask(t)
    \/ \E t \in DagTasks : MarkUpstreamFailed(t)
    \/ \E t \in DagTasks : SucceedTask(t)
    \/ \E t \in DagTasks : FailTask(t)
    \/ \E t \in DagTasks : RetryTask(t)

(***************************************************************************)
(* taxonomie-serv/main.py and backend/pattern_loader.py: the pattern table *)
(* of the taxonomy engine. A table is its number of entries and the        *)
(* regexes it holds; a text is the set of regexes that match it.           *)
(***************************************************************************)
NoTable == [missing |-> TRUE]
Unset == [unset |-> TRUE]
NoResp == [none |-> TRUE]

\* the dict MOROCCAN_PATTERNS of main.py: 47 entries
MOROCCAN_PATTERNS == [count |-> 47, regexes |-> {"cin_v1", "phone"}]

\* what the taxonomies collection can hold
StoreTables ==
    {[count |-> 46, regexes |-> {"cin_v2"}],
     [count |-> 47, regexes |-> {"cin_v2", "phone"}],
     [count |-> 48, regexes |-> {"cin_v2", "phone", "rib"}]}
Texts == {{"cin_v1"}, {"cin_v1", "cin_v2"}, {"rib"}}

\* the least number of entries a loaded table must have to be used
MinPatterns == 47

\* load_patterns_from_mongodb: the table built from the stored document, None
\* when the document is missing or the store cannot be reached
load_patterns_from_mongodb(store) == store

\* "mongodb_patterns and len(mongodb_patterns) >= 47"
LoadedEnough(loaded) == loaded # NoTable /\ loaded.count >= MinPatterns

\* TaxonomyEngine._compile_moroccan_patterns: the loop runs over the module's
\* MOROCCAN_PATTERNS, whatever self.moroccan_patterns holds
compile_moroccan_patterns(self_moroccan_patterns) == MOROCCAN_PATTERNS.regexes

\* TaxonomyEngine.analyze: the matches of the compiled patterns in the text
analyze(compiled, text) == compiled \cap text

TaxInit ==
    /\ tax_store \in StoreTables \cup {NoTable}
    /\ engine = "starting"
    /\ moroccan_patterns = Unset
    /\ compiled_patterns = {}
    /\ last_reloaded = NoTable
    /\ reloadResp = NoResp
    /\ analyzeResp = NoResp

TaxParked ==
    /\ tax_store = NoTable
    /\ engine = "starting"
    /\ moroccan_patterns = Unset
    /\ compiled_patterns = {}
    /\ last_reloaded = NoTable
    /\ reloadResp = NoResp
    /\ analyzeResp = NoResp

\* taxonomy_engine = TaxonomyEngine(...) at import: in the else branch the
\* f-string reads len(self.moroccan_patterns), an attribute nothing has set,
\* so __init__ raises AttributeError and the module fails to import.
StartUp ==
    /\ engine = "starting"
    /\ LET mongodb_patterns == load_patterns_from_mongodb(tax_store)
       IN IF LoadedEnough(mongodb_patterns)
          THEN /\ moroccan_patterns' = mongodb_patterns
               /\ compiled_patterns' = compile_moroccan_patterns(mongodb_patterns)
               /\ engine' = "up"
          ELSE /\ engine' = "crashed"
               /\ UNCHANGED <<moroccan_patterns, compiled_patterns>>
    /\ UNCHANGED <<tax_store, last_reloaded, reloadResp, analyzeResp, notTax>>

\* the taxonomies collection is rewritten (pattern migration) or lost
StoreWrite(table) ==
    /\ tax_store # table
    /\ tax_store' = table
    /\ UNCHANGED <<engine, moroccan_patterns, compiled_patterns, last_reloaded,
                   reloadResp, analyzeResp, notTax>>

\* POST /patterns/reload
ReloadPatterns ==
    /\ engine = "up"
    /\ LET new_patterns == load_patterns_from_mongodb(tax_store)
       IN IF LoadedEnough(new_patterns)
          THEN /\ moroccan_patterns' = new_patterns
               /\ compiled_patterns' = compile_moroccan_patterns(new_patterns)
               /\ last_reloaded' = new_patterns
               /\ reloadResp' = [success |-> TRUE, pattern_count |-> new_patterns.count,
                                 source |-> "mongodb"]
          ELSE /\ reloadResp' = [success |-> FALSE,
                                 pattern_count |-> moroccan_patterns.count,
                                 source |-> "unchanged"]
               /\ UNCHANGED <<moroccan_patterns, compiled_patterns, last_reloaded>>
    /\ UNCHANGED <<tax_store, engine, analyzeResp, notTax>>

\* POST /analyze
AnalyzeText(text) ==
    /\ engine = "up"
    /\ analyzeResp' = [text |-> text, detections |-> analyze(compiled_patterns, text)]
    /\ UNCHANGED <<tax_store, engine, moroccan_patterns, compiled_patterns,
                   last_reloaded, reloadResp, notTax>>

TaxNext ==
    \/ StartUp
    \/ \E table \in StoreTables \cup {NoTable} : StoreWrite(table)
    \/ ReloadPatterns
    \/ \E text \in Texts : AnalyzeText(text)

(***************************************************************************)
(* cleaning-serv/main.py and backend/cleaning_engine.py: auto-clean of a   *)
(* cached dataset of one numeric column. A cell is missing (NaN) or a      *)
(* number; numbers are kept as multiples of 1/Scale so that the mean of    *)
(* the column is exact.                                                    *)
(***************************************************************************)
RECURSIVE Factorial(_)
Factorial(n) == IF n <= 1 THEN 1 ELSE n * Factorial(n - 1)
Scale == Factorial(MaxCleanRows)

NaN == [nan |-> TRUE, v |-> 0]
Cells == {NaN} \cup {[nan |-> FALSE, v |-> x * Scale] : x \in 0..MaxCell}
CleanFrames == UNION {[1..n -> Cells] : n \in 0..MaxCleanRows}

\* remove_duplicates: df.drop_duplicates() keeps the first of equal rows
\* (missing cells count as equal)
RECURSIVE drop_duplicates(_)
drop_duplicates(df) ==
    IF df = <<>> THEN <<>>
    ELSE LET front == SubSeq(df, 1, Len(df) - 1)
             last == df[Len(df)]
         IN IF \E i \in 1..Len(front) : front[i] = last
            THEN drop_duplicates(front)
            ELSE Append(drop_duplicates(front), last)

RECURSIVE SumCells(_)
SumCells(df) ==
    IF df = <<>> THEN 0
    ELSE (IF df[1].nan THEN 0 ELSE df[1].v) + SumCells(Tail(df))

NotNan(c) == ~c.nan

\* handle_missing_values with strategy "mean": fillna(mean of the column);
\* the mean of a column without numbers is NaN and fills nothing
handle_missing_values(df) ==
    LET present == SelectSeq(df, NotNan)
    IN IF present = <<>> THEN df
       ELSE LET mean == SumCells(present) \div Len(present)
            IN [i \in 1..Len(df) |-> IF df[i].nan THEN [nan |-> FALSE, v |-> mean] ELSE df[i]]

\* the values of a column without missing cells, in increasing order
Sorted(df) ==
    LET rank(i) == Cardinality({j \in 1..Len(df) :
                       \/ df[j].v < df[i].v
                       \/ df[j].v = df[i].v /\ j < i}) + 1
    IN [k \in 1..Len(df) |-> df[CHOOSE i \in 1..Len(df) : rank(i) = k].v]

\* 4 * Series.quantile(num / 4), linear interpolation between the two
\* neighbours of position (n - 1) * num / 4
Quantile4(df, num) ==
    LET s == Sorted(df)
        h == (Len(df) - 1) * num
        i == (h \div 4) + 1
        f == h % 4
    IN IF f = 0 THEN 4 * s[i] ELSE 4 * s[i] + f * (s[i + 1] - s[i])

\* remove_outliers_iqr: rows within [q1 - 1.5 iqr, q3 + 1.5 iqr]; with a
\* column of NaN every comparison is False and no row is kept
remove_outliers_iqr(df) ==
    IF df = <<>> \/ \E i \in 1..Len(df) : df[i].nan THEN <<>>
    ELSE LET q1 == Quantile4(df, 1)
             q3 == Quantile4(df, 3)
             iqr == q3 - q1
             Within(c) == 8 * c.v >= 2 * q1 - 3 * iqr /\ 8 * c.v <= 2 * q3 + 3 * iqr
         IN SelectSeq(df, Within)

\* clean_dataframe under the configuration auto_clean passes
clean_dataframe(df) == remove_outliers_iqr(handle_missing_values(drop_duplicates(df)))

CleanInit ==
    /\ datasets_cache \in CleanFrames
    /\ cleanResp = <<>>

CleanParked ==
    /\ datasets_cache = <<>>
    /\ cleanResp = <<>>

\* POST /clean/{dataset_id}/auto: the cached frame is cleaned and replaced
AutoClean ==
    /\ Len(cleanResp) < MaxCleanRuns
    /\ LET clean_df == clean_dataframe(datasets_cache)
       IN /\ datasets_cache' = clean_df
          /\ cleanResp' = Append(cleanResp, [original_rows |-> Len(datasets_cache),
                                             cleaned_rows |-> Len(clean_df)])
    /\ UNCHANGED notClean

CleanNext ==
    \/ AutoClean

(***************************************************************************)
(* quality-serv/main.py: the PDF quality report.                           *)
(***************************************************************************)
QualityDatasetIds == 1..MaxQualityDatasets

QualityInit ==
    /\ PDF_AVAILABLE \in BOOLEAN
    /\ quality_db \in BOOLEAN
    /\ quality_datasets = {}
    /\ quality_reports = {}
    /\ pdfResp = NoResp

QualityParked ==
    /\ PDF_AVAILABLE = TRUE
    /\ quality_db = TRUE
    /\ quality_datasets = {}
    /\ quality_reports = {}
    /\ pdfResp = NoResp

\* POST /datasets/{dataset_id}/register
RegisterQualityDataset(dataset_id) ==
    /\ dataset_id \notin quality_datasets
    /\ quality_datasets' = quality_datasets \cup {dataset_id}
    /\ UNCHANGED <<PDF_AVAILABLE, quality_db, quality_reports, pdfResp, notQuality>>

\* POST /evaluate/{dataset_id}: 404 for a dataset not in datasets_store; the
\* report is inserted in quality_reports when a database is connected
EvaluateQuality(dataset_id) ==
    /\ dataset_id \in quality_datasets
    /\ quality_db
    /\ quality_reports' = quality_reports \cup {dataset_id}
    /\ UNCHANGED <<PDF_AVAILABLE, quality_db, quality_datasets, pdfResp, notQuality>>

\* PDFReportGenerator.generate: HTTPException(500, ...) without the library
generate(pdf_available) == IF pdf_available THEN 200 ELSE 500

\* GET /report/{dataset_id}/pdf
GetPdfReport(dataset_id) ==
    /\ LET report_data == quality_db /\ dataset_id \in quality_reports
       IN pdfResp' = [dataset_id |-> dataset_id, report_found |-> report_data,
                      code |-> IF ~report_data THEN 404 ELSE generate(PDF_AVAILABLE)]
    /\ UNCHANGED <<PDF_AVAILABLE, quality_db, quality_datasets, quality_reports, notQuality>>

QualityNext ==
    \/ \E dataset_id \in QualityDatasetIds : RegisterQualityDataset(dataset_id)
    \/ \E dataset_id \in QualityDatasetIds : EvaluateQuality(dataset_id)
    \/ \E dataset_id \in QualityDatasetIds : GetPdfReport(dataset_id)

(***************************************************************************)
(* tests/generate_valid_iban.py and presidio-serv iban_ma_recognizer.py:   *)
(* the check-digit generator and the MOD-97 validator. A character is its  *)
(* code point (ord); a string is a sequence of characters.                 *)
(***************************************************************************)
\* samples of "0".."9", "A".."Z" and "a".."z"
IbanChars == {48, 53, 57, 65, 77, 90, 97, 122}
\* the bases: IbanFreeLen free characters followed by one repeated character
IbanBases ==
    {[i \in 1..IbanBaseLen |-> IF i <= IbanFreeLen THEN head[i] ELSE fill] :
        head \in [1..IbanFreeLen -> IbanChars], fill \in IbanChars}

isdigit(c) == c \in 48..57
isalpha(c) == c \in 65..90 \/ c \in 97..122
upper(c) == IF c \in 97..122 THEN c - 32 ELSE c

\* A run of decimal digits is kept as the number it spells and its length:
\* a digit character spells itself, str(n) for 10 <= n <= 99 is two digits.
DigitRun(n) == [v |-> n, w |-> IF n < 10 THEN 1 ELSE 2]

\* conv of generate_iban: letters (isalpha) become str(ord(c) - ord('A') + 10),
\* the other characters are kept
conv(c) == IF isalpha(c) THEN DigitRun(c - 65 + 10) ELSE DigitRun(c - 48)

\* the loop of iban_validator: digits are kept, the other characters become
\* str(ord(char) - ord('A') + 10)
validator_digits(c) == IF isdigit(c) THEN DigitRun(c - 48) ELSE DigitRun(c - 65 + 10)

\* 10^k % 97
RECURSIVE Pow10Mod97(_)
Pow10Mod97(k) ==
    IF k = 0 THEN 1
    ELSE LET h == Pow10Mod97(k \div 2)
         IN (h * h * (IF k % 2 = 1 THEN 10 ELSE 1)) % 97

\* the number of digits of the runs lo..hi
RECURSIVE DigitCount(_, _, _)
DigitCount(runs, lo, hi) ==
    IF lo > hi THEN 0
    ELSE IF lo = hi THEN runs[lo].w
    ELSE LET mid == (lo + hi) \div 2
         IN DigitCount(runs, lo, mid) + DigitCount(runs, mid + 1, hi)

\* int(digits) % 97 for the digits spelled by the runs lo..hi, the number
\* being split in two halves
RECURSIVE IntMod97(_, _, _)
IntMod97(runs, lo, hi) ==
    IF lo = hi THEN runs[lo].v % 97
    ELSE LET mid == (lo + hi) \div 2
         IN (IntMod97(runs, lo, mid) * Pow10Mod97(DigitCount(runs, mid + 1, hi))
                + IntMod97(runs, mid + 1, hi)) % 97

\* generate_iban: conv, the suffix "221000", check = 98 - remainder and
\* f"MA{check:02d}{base_str}"
generate_iban(base_str) ==
    LET rib_digits == [i \in 1..Len(base_str) |-> conv(base_str[i])]
        rearranged_digits == rib_digits \o <<DigitRun(2), DigitRun(2), DigitRun(1),
                                             DigitRun(0), DigitRun(0), DigitRun(0)>>
        remainder == IntMod97(rearranged_digits, 1, Len(rearranged_digits))
        check == 98 - remainder
    IN <<77, 65, 48 + (check \div 10), 48 + (check % 10)>> \o base_str

\* iban_validator: upper-case, "MA" prefix and length, the first four
\* characters moved to the end, letters turned into numbers, MOD-97 = 1
iban_validator(text) ==
    LET clean_text == [i \in 1..Len(text) |-> upper(text[i])]
        rearranged == SubSeq(clean_text, 5, Len(clean_text)) \o SubSeq(clean_text, 1, 4)
        digits == [i \in 1..Len(rearranged) |-> validator_digits(rearranged[i])]
    IN IF Len(clean_text) < 24 \/ SubSeq(clean_text, 1, 2) # <<77, 65>> THEN FALSE
       ELSE IntMod97(digits, 1, Len(digits)) = 1

IbanInit ==
    /\ iban_base \in IbanBases
    /\ iban = <<>>
    /\ iban_verdict = "none"

IbanParked ==
    /\ iban_base = [i \in 1..IbanBaseLen |-> 48]
    /\ iban = <<>>
    /\ iban_verdict = "none"

\* the generator is run on the base
GenerateIban ==
    /\ iban = <<>>
    /\ iban' = generate_iban(iban_base)
    /\ UNCHANGED <<iban_base, iban_verdict, notIban>>

\* the recognizer's validator is run on the generated string
ValidateIban ==
    /\ iban # <<>>
    /\ iban_verdict = "none"
    /\ iban_verdict' = IF iban_validator(iban) THEN "accepted" ELSE "rejected"
    /\ UNCHANGED <<iban_base, iban, notIban>>

IbanNext ==
    \/ GenerateIban
    \/ ValidateIban

(***************************************************************************)
(* ethimask-serv/main.py: MaskingPerceptron.decide_masking as a function   *)
(* of its four inputs, under the default and two other configurations.     *)
(***************************************************************************)
EncodableSensitivities == {"low", "medium", "high", "critical"}
EncodableContexts == {"internal", "analysis", "display", "export", "api", "external", "default"}
EncodablePurposes == {"internal_research", "compliance", "research", "general", "marketing", "third_party"}
PerceptronConfigs ==
    {DEFAULT_CONFIG,
     [weights |-> <<100, -100, 0, 0>>, bias |-> 0],
     [weights |-> <<-50, 0, 0, 0>>, bias |-> 0]}

\* what decide_masking computes for the inputs: the linear score, in
\* thousandths, and the level
Decision(p, sensitivity, role, context, purpose) ==
    [sensitivity |-> sensitivity, role |-> role, context |-> context, purpose |-> purpose,
     score |-> Score(p, sensitivity, role, context, purpose),
     level |-> decide_masking(p, sensitivity, role, context, purpose)]

PercInit ==
    /\ perc \in PerceptronConfigs
    /\ percPrev = NoResp
    /\ percResp = NoResp

PercParked ==
    /\ perc = DEFAULT_CONFIG
    /\ percPrev = NoResp
    /\ percResp = NoResp

\* a first call of decide_masking
Decide(sensitivity, role, context, purpose) ==
    /\ percResp = NoResp
    /\ percPrev' = NoResp
    /\ percResp' = Decision(perc, sensitivity, role, context, purpose)
    /\ UNCHANGED <<perc, notPerc>>

\* the next call has the same role, context and purpose and another sensitivity
DecideSensitivity(sensitivity) ==
    /\ percResp # NoResp
    /\ percPrev = NoResp
    /\ sensitivity # percResp.sensitivity
    /\ percPrev' = percResp
    /\ percResp' = Decision(perc, sensitivity, percResp.role, percResp.context, percResp.purpose)
    /\ UNCHANGED <<perc, notPerc>>

\* the next call has the same sensitivity, context and purpose and another role
DecideRole(role) ==
    /\ percResp # NoResp
    /\ percPrev = NoResp
    /\ role # percResp.role
    /\ percPrev' = percResp
    /\ percResp' = Decision(perc, percResp.sensitivity, role, percResp.context, percResp.purpose)
    /\ UNCHANGED <<perc, notPerc>>

PercNext ==
    \/ \E sensitivity \in EncodableSensitivities, role \in UserRole,
          context \in EncodableContexts, purpose \in EncodablePurposes :
              Decide(sensitivity, role, context, purpose)
    \/ \E sensitivity \in EncodableSensitivities : DecideSensitivity(sensitivity)
    \/ \E role \in UserRole : DecideRole(role)

(***************************************************************************)
(* presidio-serv/backend/recognizers: MoroccanPatternRecognizer.analyze    *)
(* (Algorithm 3, weighted scoring) with the CIN and the CNSS recognizer.   *)
(* A text is one candidate token (a run of letters, a run of digits,       *)
(* written with or without spaces) and the recognizer context words its    *)
(* surrounding window contains.  Scores are in thousandths.                *)
(***************************************************************************)
\* Pattern(name, regex, score) of the two recognizers, the regex as the
\* shapes of token it matches
CIN_PATTERNS ==
    { [name |-> "CIN_MAROC_SPACED", score |-> 400],
      [name |-> "CIN_MAROC_FULL", score |-> 400] }
CNSS_PATTERNS == { [name |-> "CNSS", score |-> 300] }
\* the Latin-script context words, accents dropped
CIN_CONTEXT == {"cin", "carte", "identite", "national"}
CNSS_CONTEXT == {"cnss", "securite sociale", "caisse nationale", "cotisation",
                 "immatriculation"}
PresEntities == {"CIN_MAROC", "CNSS"}
PATTERNS(entity) == IF entity = "CIN_MAROC" THEN CIN_PATTERNS ELSE CNSS_PATTERNS
CONTEXT(entity) == IF entity = "CIN_MAROC" THEN CIN_CONTEXT ELSE CNSS_CONTEXT

\* the words a window may hold: one context word of each recognizer, a word
\* of neither
WindowWords == {"carte", "securite sociale", "bonjour"}
PresTexts ==
    [letters : 0..MaxLetters, digits : 5..MaxDigits, spaced : BOOLEAN,
     window : SUBSET WindowWords]

\* the regular expressions: \b[A-Z]{1,2}\s*\d{3}\s*\d{3,5}\b,
\* \b[A-Z]{1,2}\d{6,8}\b and \b\d{9,12}\b
regex_matches(name, text) ==
    CASE name = "CIN_MAROC_SPACED" ->
            text.letters \in 1..2 /\ text.digits \in 6..8
      [] name = "CIN_MAROC_FULL" ->
            text.letters \in 1..2 /\ text.digits \in 6..8 /\ ~text.spaced
      [] name = "CNSS" ->
            text.letters = 0 /\ text.digits \in 9..12 /\ ~text.spaced

\* cin_validator: 6 to 8 digits once spaces and letters are removed; the
\* CNSS recognizer passes no validator
cin_validator(text) == 6 <= text.digits /\ text.digits <= 8
has_validator(entity) == entity = "CIN_MAROC"
validator(entity, text) == cin_validator(text)

\* _check_context_proximity: some context word of the recognizer is in the
\* window around the match
check_context_proximity(entity, text) ==
    \E word \in CONTEXT(entity) : word \in text.window

\* score_final = 0.5*score_pattern + 0.3*score_context + 0.2*score_validation,
\* rounded to three decimals
score_final(score_pattern, score_context, score_validation) ==
    (500 * score_pattern + 300 * score_context + 200 * score_validation) \div 1000

\* MoroccanPatternRecognizer.analyze: the pattern matches of the base class
\* (one result a span, of the pattern's score), re-scored unless the
\* recognizer's entity was not asked for
pattern_results(entity, text) ==
    { [entity_type |-> entity, score |-> p.score] :
        p \in {q \in PATTERNS(entity) : regex_matches(q.name, text)} }
recognizer_analyze(entity, text, entities) ==
    IF entity \notin entities THEN pattern_results(entity, text)
    ELSE { [entity_type |-> entity,
            score |-> score_final(result.score,
                        IF check_context_proximity(entity, text) THEN 1000 ELSE 0,
                        IF has_validator(entity)
                        THEN (IF validator(entity, text) THEN 1000 ELSE 0)
                        ELSE 1000)] :
            result \in pattern_results(entity, text) }

NotAnalyzed == [analyzed |-> FALSE, entities |-> {}, results |-> {}]
PresInit ==
    /\ pres_text \in PresTexts
    /\ pres_recognizer \in PresEntities
    /\ pres_results = NotAnalyzed
PresParked ==
    /\ pres_text = Unset
    /\ pres_recognizer = None
    /\ pres_results = NotAnalyzed

\* one call of a recognizer's analyze on the text
RecognizerAnalyze(entities) ==
    /\ pres_text # Unset
    /\ ~pres_results.analyzed
    /\ pres_results' = [analyzed |-> TRUE, entities |-> entities,
                        results |-> recognizer_analyze(pres_recognizer, pres_text, entities)]
    /\ UNCHANGED <<pres_text, pres_recognizer, notPres>>

PresNext == \E entities \in SUBSET PresEntities : RecognizerAnalyze(entities)

(***************************************************************************)
(* classification-serv/backend/models/ensemble_classifier.py:              *)
(* EnsembleClassifier.classify.  A text is given by what the rule layer    *)
(* finds in it (the ID_REGEX entries that match, the keyword lists that    *)
(* hit); the statistical and the semantic layer answer with a label and a  *)
(* score.  Scores are in thousandths.                                      *)
(***************************************************************************)
\* ID_REGEX in the order of the dict
ID_REGEX == <<"MOROCCAN_CIN", "MOROCCAN_PASSPORT", "MOROCCAN_RIB">>
\* "PERSONAL_IDENTITY" if "CIN" in name or "PASSPORT" in name else "FINANCIAL_DATA"
regex_label(name) ==
    IF name \in {"MOROCCAN_CIN", "MOROCCAN_PASSPORT"} THEN "PERSONAL_IDENTITY"
    ELSE "FINANCIAL_DATA"

\* the statistical layer: untrained, or the top class and its probability
Untrained == [trained |-> FALSE, label |-> "OTHER", score |-> 0]
StatLayers ==
    {Untrained} \cup [trained : {TRUE}, label : {"OTHER", "FINANCIAL_DATA"},
                      score : {300, 1000}]
\* the score of the transformer pipeline, 0 with no transformers installed
SemanticScores == {0, 700, 1000}
\* med: no medical word, "patient" (in med_keys and in the semantic
\* heuristic's list), "doctor" (in med_keys only)
EnsInputs ==
    [regex : SUBSET {"MOROCCAN_CIN", "MOROCCAN_PASSPORT", "MOROCCAN_RIB"},
     id : BOOLEAN, fin : BOOLEAN, med : {"none", "patient", "doctor"},
     lang : {"en", "fr"}, stat : StatLayers, semantic : SemanticScores]

Max2(a, b) == IF a >= b THEN a ELSE b

\* the regex loop: the first entry of ID_REGEX that matches, then break
regex_layer(text) ==
    IF \E k \in 1..Len(ID_REGEX) : ID_REGEX[k] \in text.regex
    THEN LET k == CHOOSE i \in 1..Len(ID_REGEX) :
                      /\ ID_REGEX[i] \in text.regex
                      /\ \A j \in 1..(i - 1) : ID_REGEX[j] \notin text.regex
         IN [score |-> 950, label |-> regex_label(ID_REGEX[k])]
    ELSE [score |-> 0, label |-> "OTHER"]

\* one keyword check: rule_score = max(rule_score, score); rule_label = label
keyword_check(rule, hit, score, label) ==
    IF hit THEN [score |-> Max2(rule.score, score), label |-> label] ELSE rule

\* the deterministic layer: the regex loop, then, under 0.9, the identity,
\* the financial and the medical keyword check in this order
rule_layer(text) ==
    LET r0 == regex_layer(text)
    IN IF r0.score < 900
       THEN keyword_check(
                keyword_check(
                    keyword_check(r0, text.id, 800, "PERSONAL_IDENTITY"),
                    text.fin, 900, "FINANCIAL_DATA"),
                text.med # "none", 850, "MEDICAL_DATA")
       ELSE r0

\* the heuristic label of the semantic layer
semantic_label(text) ==
    IF text.semantic > 0 /\ text.lang = "fr" /\ text.med = "patient"
    THEN "MEDICAL_DATA" ELSE "OTHER"

\* candidate_labels[label] = score on a dict kept as the list of its items
dict_set(items, label, score) ==
    IF \E k \in 1..Len(items) : items[k][1] = label
    THEN [k \in 1..Len(items) |->
            IF items[k][1] = label THEN <<label, score>> ELSE items[k]]
    ELSE Append(items, <<label, score>>)
\* max(candidate_labels, key=candidate_labels.get): the first key of the
\* highest value
dict_max(items) ==
    items[CHOOSE k \in 1..Len(items) :
            /\ \A j \in 1..Len(items) : items[j][2] <= items[k][2]
            /\ \A j \in 1..(k - 1) : items[j][2] < items[k][2]][1]

\* EnsembleClassifier.classify
classify(text) ==
    LET rule == rule_layer(text)
        stat_top_score == text.stat.score
        semantic_score == text.semantic
        weighted == (400 * semantic_score + 300 * stat_top_score
                        + 300 * rule.score) \div 1000
        c1 == IF rule.score > 500 THEN <<<<rule.label, rule.score>>>> ELSE <<>>
        c2 == IF stat_top_score > 400
              THEN dict_set(c1, text.stat.label, stat_top_score) ELSE c1
        c3 == IF semantic_score > 600
              THEN dict_set(c2, semantic_label(text), semantic_score) ELSE c2
        candidate_labels == IF c3 = <<>> THEN <<<<"OTHER", 100>>>> ELSE c3
        label1 == IF rule.score > 800 THEN rule.label ELSE dict_max(candidate_labels)
        conf1 == IF rule.score > 800 THEN Max2(weighted, rule.score) ELSE weighted
    IN [classified |-> TRUE,
        classification |-> IF conf1 < 250 THEN "OTHER" ELSE label1,
        confidence |-> IF conf1 < 250 THEN Max2(conf1, 100) ELSE conf1,
        rules |-> rule.score, rule_label |-> rule.label]

NotClassified ==
    [classified |-> FALSE, classification |-> "OTHER", confidence |-> 0,
     rules |-> 0, rule_label |-> "OTHER"]
EnsInit ==
    /\ ens_text \in EnsInputs
    /\ ens_result = NotClassified
EnsParked ==
    /\ ens_text = Unset
    /\ ens_result = NotClassified

\* one call of classify
Classify ==
    /\ ens_text # Unset
    /\ ~ens_result.classified
    /\ ens_result' = classify(ens_text)
    /\ UNCHANGED <<ens_text, notEns>>

EnsNext == Classify

(***************************************************************************)
(* Specifications: one per service.  A service's specification starts the  *)
(* other services parked in one fixed state.                               *)
(***************************************************************************)
InitAnnotation ==
    /\ AnnotInit
    /\ AuthInit
    /\ MaskParked
    /\ AccessParked
    /\ SyncParked
    /\ CorrInit
    /\ ClsInit
    /\ PipeInit
    /\ TaxParked
    /\ CleanParked
    /\ QualityParked
    /\ IbanParked
    /\ PercParked
    /\ PresParked
    /\ EnsParked
InitAuth ==
    /\ AnnotInit
    /\ AuthInit
    /\ MaskParked
    /\ AccessParked
    /\ SyncParked
    /\ CorrInit
    /\ ClsInit
    /\ PipeInit
    /\ TaxParked
    /\ CleanParked
    /\ QualityParked
    /\ IbanParked
    /\ PercParked
    /\ PresParked
    /\ EnsParked
InitMask ==
    /\ AnnotInit
    /\ AuthInit
    /\ MaskInit
    /\ AccessParked
    /\ SyncParked
    /\ CorrInit
    /\ ClsInit
    /\ PipeInit
    /\ TaxParked
    /\ CleanParked
    /\ QualityParked
    /\ IbanParked
    /\ PercParked
    /\ PresParked
    /\ EnsParked
InitAccess ==
    /\ AnnotInit
    /\ AuthInit
    /\ MaskParked
    /\ AccessInit
    /\ SyncParked
    /\ CorrInit
    /\ ClsInit
    /\ PipeInit
    /\ TaxParked
    /\ CleanParked
    /\ QualityParked
    /\ IbanParked
    /\ PercParked
    /\ PresParked
    /\ EnsParked
InitSync ==
    /\ AnnotInit
    /\ AuthInit
    /\ MaskParked
    /\ AccessParked
    /\ SyncInit
    /\ CorrInit
    /\ ClsInit
    /\ PipeInit
    /\ TaxParked
    /\ CleanParked
    /\ QualityParked
    /\ IbanParked
    /\ PercParked
    /\ PresParked
    /\ EnsParked
InitCorrection ==
    /\ AnnotInit
    /\ AuthInit
    /\ MaskParked
    /\ AccessParked
    /\ SyncParked
    /\ CorrInit
    /\ ClsInit
    /\ PipeInit
    /\ TaxParked
    /\ CleanParked
    /\ QualityParked
    /\ IbanParked
    /\ PercParked
    /\ PresParked
    /\ EnsParked
InitClassification ==
    /\ AnnotInit
    /\ AuthInit
    /\ MaskParked
    /\ AccessParked
    /\ SyncParked
    /\ CorrInit
    /\ ClsInit
    /\ PipeInit
    /\ TaxParked
    /\ CleanParked
    /\ QualityParked
    /\ IbanParked
    /\ PercParked
    /\ PresParked
    /\ EnsParked
InitPipeline ==
    /\ AnnotInit
    /\ AuthInit
    /\ MaskParked
    /\ AccessParked
    /\ SyncParked
    /\ CorrInit
    /\ ClsInit
    /\ PipeInit
    /\ TaxParked
    /\ CleanParked
    /\ QualityParked
    /\ IbanParked
    /\ PercParked
    /\ PresParked
    /\ EnsParked
InitTaxonomy ==
    /\ AnnotInit
    /\ AuthInit
    /\ MaskParked
    /\ AccessParked
    /\ SyncParked
    /\ CorrInit
    /\ ClsInit
    /\ PipeInit
    /\ TaxInit
    /\ CleanParked
    /\ QualityParked
    /\ IbanParked
    /\ PercParked
    /\ PresParked
    /\ EnsParked
InitCleaning ==
    /\ AnnotInit
    /\ AuthInit
    /\ MaskParked
    /\ AccessParked
    /\ SyncParked
    /\ CorrInit
    /\ ClsInit
    /\ PipeInit
    /\ TaxParked
    /\ CleanInit
    /\ QualityParked
    /\ IbanParked
    /\ PercParked
    /\ PresParked
    /\ EnsParked
InitQuality ==
    /\ AnnotInit
    /\ AuthInit
    /\ MaskParked
    /\ AccessParked
    /\ SyncParked
    /\ CorrInit
    /\ ClsInit
    /\ PipeInit
    /\ TaxParked
    /\ CleanParked
    /\ QualityInit
    /\ IbanParked
    /\ PercParked
    /\ PresParked
    /\ EnsParked
InitIban ==
    /\ AnnotInit
    /\ AuthInit
    /\ MaskParked
    /\ AccessParked
    /\ SyncParked
    /\ CorrInit
    /\ ClsInit
    /\ PipeInit
    /\ TaxParked
    /\ CleanParked
    /\ QualityParked
    /\ IbanInit
    /\ PercParked
    /\ PresParked
    /\ EnsParked
InitPerceptron ==
    /\ AnnotInit
    /\ AuthInit
    /\ MaskParked
    /\ AccessParked
    /\ SyncParked
    /\ CorrInit
    /\ ClsInit
    /\ PipeInit
    /\ TaxParked
    /\ CleanParked
    /\ QualityParked
    /\ IbanParked
    /\ PercInit
    /\ PresParked
    /\ EnsParked
InitPresidio ==
    /\ AnnotInit
    /\ AuthInit
    /\ MaskParked
    /\ AccessParked
    /\ SyncParked
    /\ CorrInit
    /\ ClsInit
    /\ PipeInit
    /\ TaxParked
    /\ CleanParked
    /\ QualityParked
    /\ IbanParked
    /\ PercParked
    /\ PresInit
    /\ EnsParked
InitEnsemble ==
    /\ AnnotInit
    /\ AuthInit
    /\ MaskParked
    /\ AccessParked
    /\ SyncParked
    /\ CorrInit
    /\ ClsInit
    /\ PipeInit
    /\ TaxParked
    /\ CleanParked
    /\ QualityParked
    /\ IbanParked
    /\ PercParked
    /\ PresParked
    /\ EnsInit
InitLoadBased ==
    /\ LoadInit
    /\ AuthInit
    /\ MaskParked
    /\ AccessParked
    /\ SyncParked
    /\ CorrInit
    /\ ClsInit
    /\ PipeInit
    /\ TaxParked
    /\ CleanParked
    /\ QualityParked
    /\ IbanParked
    /\ PercParked
    /\ PresParked
    /\ EnsParked
InitRoundRobin ==
    /\ RoundRobinInit
    /\ AuthInit
    /\ MaskParked
    /\ AccessParked
    /\ SyncParked
    /\ CorrInit
    /\ ClsInit
    /\ PipeInit
    /\ TaxParked
    /\ CleanParked
    /\ QualityParked
    /\ IbanParked
    /\ PercParked
    /\ PresParked
    /\ EnsParked

SpecAnnotation == InitAnnotation /\ [][AnnotNext]_vars
SpecAuth == InitAuth /\ [][AuthNext]_vars
SpecMask == InitMask /\ [][MaskNext]_vars
SpecAccess == InitAccess /\ [][AccessNext]_vars
SpecSync == InitSync /\ [][SyncNext]_vars
SpecCorrection == InitCorrection /\ [][CorrNext]_vars
SpecClassification == InitClassification /\ [][ClsNext]_vars
SpecPipeline == InitPipeline /\ [][PipeNext]_vars
\* the scheduler keeps examining the run and every try of a callable ends
SpecPipelineFair == SpecPipeline /\ WF_vars(PipeNext)
SpecTaxonomy == InitTaxonomy /\ [][TaxNext]_vars
SpecCleaning == InitCleaning /\ [][CleanNext]_vars
SpecQuality == InitQuality /\ [][QualityNext]_vars
SpecIban == InitIban /\ [][IbanNext]_vars
SpecPerceptron == InitPerceptron /\ [][PercNext]_vars
SpecPresidio == InitPresidio /\ [][PresNext]_vars
SpecEnsemble == InitEnsemble /\ [][EnsNext]_vars
SpecLoadBased == InitLoadBased /\ [][LoadNext]_vars
SpecRoundRobin == InitRoundRobin /\ [][RoundRobinNext]_vars

(***************************************************************************)
(* Properties of the annotation service.                                   *)
(***************************************************************************)
\* the transitions of the documented task lifecycle
DocumentedTransitions ==
    {<<"pending", "assigned">>, <<"assigned", "in_progress">>,
     <<"in_progress", "completed">>, <<"completed", "review">>,
     <<"review", "completed">>} \cup {<<st, "rejected">> : st \in TaskStatus}

\* the status the lifecycle documents as the only one a call is accepted in
RequiredStatus(op) ==
    CASE op = "start" -> "assigned"
      [] op = "submit" -> "in_progress"
      [] op = "review" -> "completed"
      [] op = "approve" -> "review"

\* C1: every change of a stored task's status is a documented transition,
\* and submit, request-review and approve take effect only on a task that
\* is in_progress, completed and in review respectively.
C1_DocumentedTransitionsOnly ==
    [][/\ \A t \in TaskIds :
            (InDb(tasks, t) /\ InDb(tasks', t) /\ tasks'[t].status # tasks[t].status)
                => <<tasks[t].status, tasks'[t].status>> \in DocumentedTransitions
       /\ \A r \in ReqIds :
            (reqs[r].op \in {"submit", "review", "approve"} /\ reqs'[r] = Idle
               /\ InDb(tasks, reqs[r].task))
                => tasks[reqs[r].task].status = RequiredStatus(reqs[r].op)]_vars

\* C5: a manual assignment that reports success and writes the task finds
\* it pending at the moment of the write, whatever other assignment
\* requests are in flight.
C5_ManualAssignOnlyPending ==
    [][\A r \in ReqIds :
          (reqs[r].op = "assign_task" /\ reqs'[r] = Idle /\ InDb(tasks, reqs[r].task))
              => tasks[reqs[r].task].status = "pending"]_vars

(***************************************************************************)
(* Properties of the authentication service.                               *)
(***************************************************************************)
\* C2: a stored user's status changes only from pending to active or from
\* pending to rejected.
C2_StatusOnlyLeavesPending ==
    [][\A i \in 1..Len(users) :
          users'[i].status # users[i].status
              => /\ users[i].status = "pending"
                 /\ users'[i].status \in {"active", "rejected"}]_vars

\* the handlers the role guard is documented to gate
GuardedOps == {"get_all_users", "list_pending_users", "approve", "reject",
               "update_status", "update_role"}

\* C3: apart from the bootstrap route, a listing, a role change, a status
\* change or the creation of an account with role admin or status active is
\* answered only for a request that carries a valid admin token.
C3_RoleGuardGates ==
    /\ authResp.op \in GuardedOps => authResp.admin
    /\ (authResp.op = "create_user"
          /\ (users[Len(users)].role = "admin" \/ users[Len(users)].status = "active"))
        => authResp.admin

\* C4: a login obtains a token exactly when the user exists, the password
\* verifies and the status is neither pending nor rejected; a pending or
\* rejected user with the right password gets 403 and no token; the token
\* carries the username as sub, the stored role, and expires 60 minutes
\* after issue.
C4_LoginContract ==
    authResp.op = "login" =>
        LET i == find_one(users, authResp.username)
            known == i # 0 /\ verify_password(authResp.password, users[i].password)
        IN /\ authResp.code = 200
                <=> (known /\ users[i].status \notin {"pending", "rejected"})
           /\ (known /\ users[i].status \in {"pending", "rejected"})
                => (authResp.code = 403 /\ authResp.token = NoHeader)
           /\ authResp.code # 200 => authResp.token = NoHeader
           /\ authResp.code = 200
                => /\ authResp.token \in tokens
                   /\ authResp.token.sub = authResp.username
                   /\ authResp.token.role = users[i].role
                   /\ authResp.token.exp = authResp.at + 60

\* C4 witness: a token has been issued and a later login with the right
\* password of a pending or rejected user was refused with 403
C4_Witness ==
    /\ tokens # {}
    /\ authResp.op = "login"
    /\ authResp.code = 403
    /\ verify_password(authResp.password, users[find_one(users, authResp.username)].password)
    /\ users[find_one(users, authResp.username)].status = "rejected"

\* C6: no two stored users have the same username.
C6_UsernamesUnique ==
    \A i, j \in 1..Len(users) : i # j => users[i].username # users[j].username

\* C7: every stored user's status is pending, active or rejected.
C7_StatusInEnum ==
    \A i \in 1..Len(users) : users[i].status \in {"pending", "active", "rejected"}

(***************************************************************************)
(* Properties of the EthiMask service.                                     *)
(***************************************************************************)
\* the level the documented resolution order gives one detection: the exact
\* (entity_type, role) policy, else the wildcard-entity policy of the role
\* (stored policies before the built-in ones), else the perceptron's decision
DocumentedLevel(entity_type, sensitivity, role, context, purpose) ==
    LET stored(e) == IF db THEN masking_policies_find(masking_policies, e, role) ELSE {}
        builtin(e) == {DEFAULT_POLICIES[k] : k \in
                          {k \in 1..Len(DEFAULT_POLICIES) :
                              /\ DEFAULT_POLICIES[k].entity_type = e
                              /\ DEFAULT_POLICIES[k].role = role}}
        found == IF stored(entity_type) # {} THEN stored(entity_type)
                 ELSE IF stored("*") # {} THEN stored("*")
                 ELSE IF builtin(entity_type) # {} THEN builtin(entity_type)
                 ELSE builtin("*")
    IN IF found # {} THEN (CHOOSE p \in found : TRUE).level
       ELSE decide_masking(perceptron, sensitivity, role, context, purpose)

\* C8: every detection a /mask request masks gets the level of the exact
\* (entity_type, role) policy if there is one, else of the role's
\* wildcard-entity policy if there is one, else the perceptron's decision
\* for that request.
C8_LevelResolution ==
    [][(maskResp' # maskResp /\ maskResp'.op = "mask") =>
          \A i \in 1..Len(maskResp'.audit_log) :
              maskResp'.audit_log[i].masking_level =
                  DocumentedLevel(maskResp'.audit_log[i].entity_type,
                                  maskResp'.audit_log[i].sensitivity,
                                  maskResp'.role, maskResp'.context, maskResp'.purpose)]_vars

(***************************************************************************)
(* Properties of the access-decision simulator.                            *)
(***************************************************************************)
AccessCase(user_role, tags, decision) ==
    (acResp # NoDecision /\ acReq = [user_role |-> user_role, tags |-> tags])
        => acResp = decision

\* C9: the simulator denies ("external", ["CRITICAL"]), allows
\* ("labeler", ["PII"]) with mask MASK, allows ("admin", []) with no mask, and
\* allows ("data_steward", ["SPI"]) with no mask: the steward is exempt from
\* the SPI hash.
C9_AccessDecisions ==
    /\ AccessCase("external", <<"CRITICAL">>, [allow |-> FALSE])
    /\ AccessCase("data_steward", <<"SPI">>, [allow |-> TRUE, mask |-> None])
    /\ AccessCase("labeler", <<"PII">>, [allow |-> TRUE, mask |-> "MASK"])
    /\ AccessCase("admin", <<>>, [allow |-> TRUE, mask |-> None])

\* the simulator has answered the steward's SPI request
C9_Witness ==
    /\ acReq = [user_role |-> "data_steward", tags |-> <<"SPI">>]
    /\ acResp # NoDecision
    /\ acResp.allow

\* C9 as stated: ("data_steward", ["SPI"]) is allowed with mask HASH
C9_AsStated ==
    /\ AccessCase("external", <<"CRITICAL">>, [allow |-> FALSE])
    /\ AccessCase("data_steward", <<"SPI">>, [allow |-> TRUE, mask |-> "HASH"])
    /\ AccessCase("labeler", <<"PII">>, [allow |-> TRUE, mask |-> "MASK"])
    /\ AccessCase("admin", <<>>, [allow |-> TRUE, mask |-> None])

(***************************************************************************)
(* Properties of the governance sync routines.                             *)
(***************************************************************************)
\* C10: with the mock flag set, a call of either sync routine returns a
\* placeholder result and leaves no outbound HTTP request behind.
C10_MockIssuesNoHttp ==
    (mock_flag /\ syncResp.op \in {"atlas_sync", "ranger_sync"}) =>
        /\ http_requests = <<>>
        /\ syncResp.status # "raised"

(***************************************************************************)
(* Properties of the correction service.                                   *)
(***************************************************************************)
\* C11: once every detect call issued for the dataset has completed, the
\* stored inconsistencies of the dataset are the batch of one detection run:
\* no two of them come from different runs.
C11_DetectReplaces ==
    (detect_runs > 0 /\ \A r \in CorrReqIds : corrReqs[r].op # "detect")
        => Cardinality({d.id[1] : d \in inconsistencies}) <= 1

\* C13: when a /correct call returns, each inconsistency it targeted is
\* marked applied, with its suggested correction in its cell of the dataset,
\* or rejected, and the counts returned are the numbers so marked.
C13_CorrectApplies ==
    [][\A r \in CorrReqIds :
          (corrReqs[r].op = "correct" /\ corrReqs'[r] = Idle /\ corrResp'.code = 200)
          => /\ \A i \in inconsistencies' :
                   i.id \in corrResp'.targets
                   => \/ /\ i.status = "applied"
                         /\ datasets_store'[i.row_index] = i.suggested_correction
                      \/ i.status = "rejected"
             /\ corrResp'.corrections_applied =
                   Cardinality({i \in inconsistencies' :
                       i.id \in corrResp'.targets /\ i.status = "applied"})
             /\ corrResp'.corrections_rejected =
                   Cardinality({i \in inconsistencies' :
                       i.id \in corrResp'.targets /\ i.status = "rejected"})]_vars

(***************************************************************************)
(* Properties of the classification service.                               *)
(***************************************************************************)
\* C12: once the validate calls for an item id have completed, whatever
\* their interleaving, the item is no longer pending; an item a call confirmed
\* is in the validated collection exactly once, and an item a call rejected
\* is in neither collection.
C12_ValidateMoves ==
    \A id \in ItemIds :
        (valResponses[id] # {}
            /\ \A r \in ValReqIds :
                  valReqs[r].op = "validate" => valReqs[r].classification.id # id)
        => /\ \A d \in pending_classifications : d.id # id
           /\ <<"confirm", 200>> \in valResponses[id]
                 => CountOf(validated_classifications, id) = 1
           /\ <<"reject", 200>> \in valResponses[id]
                 => CountOf(validated_classifications, id) = 0

\* the number of tasks a load-based request has assigned to user u so far
AssignedBy(q, u) ==
    Cardinality({k \in 1..Len(q.assignments) : q.assignments[k][2] = u})

\* C14: in a sequence of load-based /assign calls, each assigning iteration
\* gives the next pending task to a listed user who is below
\* max_tasks_per_user and whose count of assigned or in-progress tasks is the
\* smallest among the listed users below the limit; and when no listed user
\* was above the limit as the call began, none is above it after any
\* iteration of the call.
C14_LoadBasedRespectsLimit ==
    [][\A r \in ReqIds :
          (reqs[r].op = "assign_load_based" /\ reqs'[r] # reqs[r]) =>
              LET q == reqs[r]
                  listed == DOMAIN q.loads
              IN /\ (reqs'[r] # Idle /\ reqs'[r].i = q.i + 1) =>
                        LET t == q.pending[q.i + 1]
                            u == tasks'[t].assigned_to
                        IN /\ tasks[t].status = "pending"
                           /\ tasks'[t].status = "assigned"
                           /\ u \in listed
                           /\ get_user_load(tasks, u) < q.max_per_user
                           /\ \A v \in listed :
                                  get_user_load(tasks, v) < q.max_per_user
                                      => get_user_load(tasks, u) <= get_user_load(tasks, v)
                 /\ (\A u \in listed : q.loads[u] - AssignedBy(q, u) <= q.max_per_user)
                        => \A u \in listed : get_user_load(tasks', u) <= q.max_per_user
      ]_vars

\* a load-based call over two users that has assigned at least two tasks and
\* stops with tasks still pending because every user has reached the limit
C14_Witness ==
    \E r \in ReqIds :
        /\ reqs[r].op = "assign_load_based"
        /\ Len(reqs[r].users) = 2
        /\ Len(reqs[r].assignments) >= 2
        /\ reqs[r].i < Len(reqs[r].pending)
        /\ available(reqs[r].users, reqs[r].loads, reqs[r].max_per_user) = {}

\* C15: a round-robin /assign call served alone gives the k-th pending task
\* to the user at position (cursor + k - 1) modulo the length of the supplied
\* list, the cursor being the service-level one as the call began, and then
\* moves the cursor forward by the number of tasks assigned, modulo that
\* length; with 3 users, 9 pending tasks, the cursor at its initial value
\* and no task assigned before the call, each user receives and holds
\* exactly 3 tasks.
C15_RoundRobinFair ==
    [][\A r \in ReqIds :
          (reqs[r].op = "assign_round_robin" /\ reqs'[r] = Idle) =>
              LET q == reqs[r]
                  n == Len(q.users)
              IN /\ Len(q.assignments) = Len(q.pending)
                 /\ \A k \in 1..Len(q.pending) :
                        LET u == q.users[((last_assigned_index + k - 1) % n) + 1]
                        IN /\ q.assignments[k] = <<q.pending[k], u>>
                           /\ tasks[q.pending[k]].status = "assigned"
                           /\ tasks[q.pending[k]].assigned_to = u
                 /\ last_assigned_index' = (last_assigned_index + Len(q.assignments)) % n
                 /\ (/\ n = 3 /\ Len(q.pending) = 9 /\ last_assigned_index = 0
                     /\ \A t \in DOMAIN tasks :
                            (\A k \in 1..9 : q.pending[k] # t) => tasks[t].assigned_to = None) =>
                        \A u \in {q.users[k] : k \in 1..n} :
                            /\ AssignedBy(q, u) = 3
                            /\ Cardinality({t \in DOMAIN tasks : tasks[t].assigned_to = u}) = 3
      ]_vars

\* the first round-robin call, over 3 users and 9 pending tasks, has walked
\* its whole list and is about to return
C15_Witness ==
    \E r \in ReqIds :
        /\ reqs[r].op = "assign_round_robin"
        /\ Len(reqs[r].users) = 3
        /\ Len(reqs[r].pending) = 9
        /\ reqs[r].i = 9
        /\ last_assigned_index = 0
        /\ \A t \in DOMAIN tasks : tasks[t].status = "assigned"

\* C16: in every run of the pipeline store_results is executed: it is never
\* skipped because of an upstream failure, it does not start before
\* create_annotation_tasks and apply_masking have both finished (succeeded,
\* failed or upstream_failed), and it is eventually run.
C16_StoreAlwaysRuns ==
    /\ [](/\ ti["store_results"] # "upstream_failed"
          /\ ti["store_results"] # "none" =>
                 \A u \in upstream("store_results") : ti[u] \in FinishedStates)
    /\ <>(ti["store_results"] \in {"success", "failed"})

\* store_results has been run in a run where upload_dataset failed and the
\* steps after it were never run
C16_Witness ==
    /\ ti["upload_dataset"] = "failed"
    /\ ti["apply_masking"] = "upstream_failed"
    /\ ti["create_annotation_tasks"] = "upstream_failed"
    /\ ti["store_results"] = "failed"

\* C17: once a reload has obtained a table of at least 47 entries from the
\* document store, every later /analyze response holds the matches of the
\* text against that reloaded table.
C17_ReloadHotSwaps ==
    [][(last_reloaded # NoTable /\ analyzeResp' # analyzeResp)
          => analyzeResp'.detections = analyze(last_reloaded.regexes, analyzeResp'.text)
      ]_vars

\* C18: start-up always completes, and the table the engine then matches
\* against is the document-store table when the loader returned at least 47
\* entries and the hardcoded table otherwise.
C18_StartupTable ==
    [][(engine = "starting" /\ engine' # "starting")
          => /\ engine' = "up"
             /\ compiled_patterns' = IF LoadedEnough(load_patterns_from_mongodb(tax_store))
                                     THEN tax_store.regexes
                                     ELSE MOROCCAN_PATTERNS.regexes
      ]_vars

\* C19: when auto-clean has run twice in sequence on a dataset, the row count
\* reported by the second run equals the one reported by the first.
C19_CleanIdempotentRows ==
    Len(cleanResp) >= 2 => cleanResp[2].cleaned_rows = cleanResp[1].cleaned_rows

\* C20: when the PDF library is absent, a request for the PDF report of a
\* dataset that has a stored report is answered 503.
C20_PdfUnavailable503 ==
    (pdfResp # NoResp /\ ~PDF_AVAILABLE /\ pdfResp.report_found) => pdfResp.code = 503

\* C21: the string generate_iban builds from any 24-character alphanumeric
\* base is accepted by the recognizer's validator.
C21_IbanRoundTrip ==
    iban_verdict # "rejected"

SensitivityRank(s) ==
    CASE s = "low" -> 1 [] s = "medium" -> 2 [] s = "high" -> 3 [] s = "critical" -> 4
LevelRank(l) ==
    CASE l = "none" -> 1 [] l = "partial" -> 2 [] l = "full" -> 3 [] l = "encrypted" -> 4
\* admin is the most privileged role, external the least
PrivilegeRank(r) ==
    CASE r = "external" -> 1 [] r = "labeler" -> 2 [] r = "annotator" -> 3
      [] r = "analyst" -> 4 [] r = "steward" -> 5 [] r = "admin" -> 6

\* C22: with a positive sensitivity weight, of two decisions that differ only
\* by the sensitivity, the one for the higher sensitivity has a masking level
\* at least as high in the ordering none < partial < full < encrypted.
C22_SensitivityMonotone ==
    (percPrev # NoResp /\ perc.weights[1] > 0 /\ percPrev.role = percResp.role
        /\ percPrev.context = percResp.context /\ percPrev.purpose = percResp.purpose
        /\ SensitivityRank(percPrev.sensitivity) < SensitivityRank(percResp.sensitivity))
        => LevelRank(percPrev.level) <= LevelRank(percResp.level)

\* two decisions that differ only by the sensitivity, under a positive
\* sensitivity weight, the second for a higher sensitivity and with a
\* strictly higher level
C22_Witness ==
    /\ percPrev # NoResp
    /\ perc.weights[1] > 0
    /\ percPrev.role = percResp.role
    /\ percPrev.sensitivity = "low"
    /\ percResp.sensitivity = "critical"
    /\ percPrev.level = "partial"
    /\ percResp.level = "encrypted"

\* C27: under the default weights, of two decisions that differ only by the
\* role, the one for the more privileged role has a score that is not higher.
C27_PrivilegeLowersScore ==
    (percPrev # NoResp /\ perc = DEFAULT_CONFIG
        /\ percPrev.sensitivity = percResp.sensitivity
        /\ percPrev.context = percResp.context /\ percPrev.purpose = percResp.purpose
        /\ PrivilegeRank(percPrev.role) < PrivilegeRank(percResp.role))
        => percResp.score <= percPrev.score

\* C28: with the default weights and bias, each of the four masking levels is
\* the decision for some encodable sensitivity, role, context and purpose.
C28_EveryLevelDecided ==
    perc = DEFAULT_CONFIG =>
        \A level \in MaskingLevel :
            \E sensitivity \in EncodableSensitivities, role \in UserRole,
               context \in EncodableContexts, purpose \in EncodablePurposes :
                   decide_masking(perc, sensitivity, role, context, purpose) = level

\* C23: a match of the CIN or the CNSS recognizer, asked for its entity, that
\* has one of the recognizer's context words in its window and that passes
\* validation has a final score of at least 0.85.
C23_ContextAndValidationScore ==
    (pres_results.analyzed /\ pres_recognizer \in pres_results.entities
        /\ check_context_proximity(pres_recognizer, pres_text)
        /\ (has_validator(pres_recognizer) => validator(pres_recognizer, pres_text)))
        => \A result \in pres_results.results : result.score >= 850

\* the pairs (task, user) a bulk-assign request in flight has put on the
\* list it returns to its caller
Reported(r) ==
    IF reqs[r].op = "assign_round_robin"
    THEN {reqs[r].assignments[k] : k \in 1..Len(reqs[r].assignments)}
    ELSE {}

\* C24: under any interleaving of bulk-assign requests, no task is on the
\* assignment lists of two requests with two different users.
C24_OneAssignerPerTask ==
    \A r1, r2 \in ReqIds :
        \A a1 \in Reported(r1), a2 \in Reported(r2) :
            (r1 # r2 /\ a1[1] = a2[1]) => a1[2] = a2[2]

\* C25: once an admin has rejected a user or changed the user's role, a token
\* of that user issued before passes the admin role guard only if the user's
\* new role is admin and the user is not rejected.
C25_GuardFollowsChange ==
    [][\A name \in Usernames :
          (/\ authResp'.op \in {"reject", "update_role"}
           /\ authResp'.code = 200
           /\ find_one(users, name) # 0
           /\ users'[find_one(users, name)] # users[find_one(users, name)])
          => \A tok \in tokens' :
                (tok.sub = name /\ require_role({"admin"}, tok, now') = 0)
                => /\ Lower(users'[find_one(users, name)].role) = "admin"
                   /\ users'[find_one(users, name)].status # "rejected"]_vars

\* C26: with a document store, once every configuration update has completed,
\* the weights and bias of the in-process perceptron equal the configuration
\* GET /config returns, which is the persisted one.
C26_PerceptronEqualsPersisted ==
    (db /\ ethimask_config # NoDoc /\ \A r \in CfgReqIds : cfgReqs[r] = Idle)
        => perceptron = get_config(db, ethimask_config)

\* the checks of the rule layer that fired on a text, each as its category
\* and its score: the first matching regex, and with no regex match the
\* keyword checks that hit
FiredChecks(text) ==
    IF text.regex # {} THEN {regex_layer(text)}
    ELSE {c \in { [score |-> 800, label |-> "PERSONAL_IDENTITY", hit |-> text.id],
                  [score |-> 900, label |-> "FINANCIAL_DATA", hit |-> text.fin],
                  [score |-> 850, label |-> "MEDICAL_DATA", hit |-> text.med # "none"] } :
            c.hit}

\* C29: after classify, rule_score is the maximum score of the checks that
\* fired and rule_label the category of the check with that maximum; when
\* rule_score > 0.8 they are the classification and the confidence.
C29_RuleLabelOfMaximum ==
    (ens_result.classified /\ FiredChecks(ens_text) # {})
        => /\ \E c \in FiredChecks(ens_text) :
                /\ \A o \in FiredChecks(ens_text) : o.score <= c.score
                /\ ens_result.rules = c.score
                /\ ens_result.rule_label = c.label
           /\ ens_result.rules > 800
                => /\ ens_result.classification = ens_result.rule_label
                   /\ ens_result.confidence = ens_result.rules

\* C30: in a run where an upstream step failed so that evaluate_quality
\* produced no quality report, store_results, once finished, has succeeded.
C30_StoreSucceedsWithoutReport ==
    (ti["evaluate_quality"] \in {"failed", "upstream_failed"}
        /\ ti["store_results"] \in {"success", "failed"})
        => ti["store_results"] = "success"

====
